---- MODULE Spec2Model ----
(***************************************************************************)
(* Model of the property-listing scorer served by POST /api/analyze.       *)
(*                                                                         *)
(* Two variants of the route exist in the repository:                      *)
(*   "extended"  src/app/api/analyze/route.ts                              *)
(*   "simple"    src/unnamed/part_001                                       *)
(*                                                                         *)
(* Number representation.  The code computes in IEEE doubles; the model    *)
(* computes the same expressions exactly, in scaled integers:              *)
(*   - the five sub-scores are in TENTHS                 (9.8  -> 98)      *)
(*   - weighted sums, the growth and volatility terms and the final        *)
(*     score are in THOUSANDTHS                          (6.5  -> 6500)    *)
(*   - Math.random() is a grid point k / RandRes, k in 0 .. RandRes-1,     *)
(*     so a jittered score is in units of 1 / (1000 * RandRes)             *)
(*   - a price ratio is kept as a fraction <<num, den>>                    *)
(* Strings are TLA+ strings; toLowerCase and includes are computed on      *)
(* their characters.                                                       *)
(***************************************************************************)
EXTENDS Integers, Sequences, FiniteSets, TLC

\* one request to the route, the pure-function calls, the requests in flight
\* together, and the browser: the page, its storage and its clock
VARIABLES variant, body, pc, status, response, scorerCalls, resubmits, prev, call,
          requests, client, localStorage, now

vars == <<variant, body, pc, status, response, scorerCalls, resubmits, prev, call,
          requests, client, localStorage, now>>

\* the state outside the single request and the pure-function calls
restVars == <<requests, client, localStorage, now>>

-----------------------------------------------------------------------------
(* Bounds of the model *)

\* Math.random() takes the values k / RandRes for the jitter draw
RandRes == 7
\* Math.random() takes the values k / CountRes for each listingsCount draw
CountRes == 2
\* how many times a client submits the same payload again
MaxResubmits == 1
\* largest floor area and room count fed to the size-efficiency functions
MaxSize == 60
MaxRooms == 4
\* how many clicks on submit, on a saved property or on save a browser
\* session is followed for
MaxClock == 2

-----------------------------------------------------------------------------
(* String helpers: String.prototype.toLowerCase and String.prototype.includes *)

UpperAlphabet == "ABCDEFGHIJKLMNOPQRSTUVWXYZ"
LowerAlphabet == "abcdefghijklmnopqrstuvwxyz"

CharAt(s, i) == SubSeq(s, i, i)

\* the lower-case letter of every upper-case letter
LowerOf ==
  [c \in {CharAt(UpperAlphabet, i) : i \in 1..26} |->
     CharAt(LowerAlphabet, CHOOSE i \in 1..26 : CharAt(UpperAlphabet, i) = c)]

LowerChar(c) == IF c \in DOMAIN LowerOf THEN LowerOf[c] ELSE c

RECURSIVE toLowerCase(_)
toLowerCase(s) ==
  IF Len(s) = 0 THEN ""
  ELSE LowerChar(CharAt(s, 1)) \o toLowerCase(SubSeq(s, 2, Len(s)))

includes(s, k) ==
  \E i \in 1..(Len(s) - Len(k) + 1) : SubSeq(s, i, i + Len(k) - 1) = k

\* keywords.some(keyword => s.includes(keyword))
includesAny(s, keywords) == \E k \in keywords : includes(s, k)

-----------------------------------------------------------------------------
(* Arithmetic helpers *)

Max(a, b) == IF a >= b THEN a ELSE b
Min(a, b) == IF a <= b THEN a ELSE b

\* mutant of Clamp: the upper bound is left out, Math.max(1, x)
ClampNoCeiling(x) == Max(10, x)

\* Math.max(1, Math.min(10, x)) on a sub-score, tenths
Clamp(x) == Max(10, Min(100, x))

\* mutant of ClampFinal: the lower bound is left out, Math.min(10, x)
ClampFinalNoFloor(x) == Min(10000, x)

\* Math.max(1, Math.min(10, x)) on the final score, thousandths
ClampFinal(x) == Max(1000, Min(10000, x))

\* a fraction num/den (den > 0) compared with pct/100
RatioLess(r, pct) == r[1] * 100 < pct * r[2]
RatioLeq(r, pct) == r[1] * 100 <= pct * r[2]
RatioGreater(r, pct) == r[1] * 100 > pct * r[2]

-----------------------------------------------------------------------------
(* Static lookup chains keyed on the city string (both variants).          *)
(* Every chain is first-match-wins, in the order of the source.            *)

RegionalCenters == {"namangan", "andijon", "nukus", "qo'qon", "qarshi", "termiz"}
IndustrialCities == {"marg'ilon", "urganch", "navoiy", "jizzax", "guliston",
                     "chirchiq", "angren", "bekobod"}

\* extended variant; the result is in tenths (8.3 -> 83, 1128 -> 11280)
getExpectedPricePerSqm(city, propertyType) ==
  LET cityLower == toLowerCase(city) IN
  IF propertyType = "rent" THEN
    IF includes(cityLower, "toshkent shahri") THEN 83
    ELSE IF includesAny(cityLower, {"samarqand", "buxoro"}) THEN 55
    ELSE IF includesAny(cityLower, RegionalCenters) THEN 38
    ELSE IF includesAny(cityLower, IndustrialCities) THEN 28
    ELSE IF includes(cityLower, "toshkent viloyati") THEN 42
    ELSE IF includesAny(cityLower, {"viloyati", "viloyat"}) THEN 25
    ELSE IF includesAny(cityLower, {"qoraqalpog", "karakalpak"}) THEN 18
    ELSE 32
  ELSE
    IF includes(cityLower, "toshkent shahri") THEN 11280
    ELSE IF includesAny(cityLower, {"samarqand", "buxoro"}) THEN 7500
    ELSE IF includesAny(cityLower, RegionalCenters) THEN 5500
    ELSE IF includesAny(cityLower, IndustrialCities) THEN 4200
    ELSE IF includes(cityLower, "toshkent viloyati") THEN 6500
    ELSE IF includesAny(cityLower, {"viloyati", "viloyat"}) THEN 3800
    ELSE IF includesAny(cityLower, {"qoraqalpog", "karakalpak"}) THEN 3330
    ELSE 4500

\* simple variant; the result is in tenths
getExpectedPricePerSqmSimple(city, propertyType) ==
  LET cityLower == toLowerCase(city) IN
  IF propertyType = "rent" THEN
    IF includes(cityLower, "toshkent shahri") THEN 83
    ELSE IF includesAny(cityLower, {"samarqand", "buxoro"}) THEN 55
    ELSE IF includesAny(cityLower, RegionalCenters) THEN 38
    ELSE IF includesAny(cityLower, IndustrialCities) THEN 28
    ELSE IF includes(cityLower, "toshkent viloyati") THEN 42
    ELSE IF includesAny(cityLower, {"viloyati", "viloyat"}) THEN 25
    ELSE IF includesAny(cityLower, {"qoraqalpog", "karakalpak"}) THEN 18
    ELSE 32
  ELSE
    IF includes(cityLower, "toshkent shahri") THEN 11280
    ELSE IF includesAny(cityLower, {"samarqand", "buxoro"}) THEN 7500
    ELSE IF includesAny(cityLower, RegionalCenters) THEN 5500
    ELSE IF includesAny(cityLower, IndustrialCities) THEN 4200
    ELSE IF includes(cityLower, "toshkent viloyati") THEN 6500
    ELSE IF includesAny(cityLower, {"viloyati", "viloyat"}) THEN 3800
    ELSE IF includesAny(cityLower, {"qoraqalpog", "karakalpak"}) THEN 3330
    ELSE 4500

\* extended variant; thousandths
getRegionalGrowthFactor(city) ==
  LET cityLower == toLowerCase(city) IN
  IF includesAny(cityLower, {"xorazm", "khorezm"}) THEN 800
  ELSE IF includesAny(cityLower, {"surxondaryo", "surkhandarya"}) THEN 700
  ELSE IF includesAny(cityLower, {"buxoro", "bukhara"}) THEN 600
  ELSE IF includesAny(cityLower, {"qashqadaryo", "kashkadarya"}) THEN 500
  ELSE IF includes(cityLower, "toshkent shahri") THEN 300
  ELSE IF includes(cityLower, "toshkent viloyati") THEN 200
  ELSE IF includesAny(cityLower, {"samarqand", "samarkand"}) THEN 400
  ELSE IF includesAny(cityLower, {"namangan", "andijon"}) THEN 300
  ELSE IF includesAny(cityLower, {"navoiy", "jizzax", "guliston", "qarshi"}) THEN 100
  ELSE IF includes(cityLower, "jizzax viloyati") THEN -300
  ELSE IF includes(cityLower, "sirdaryo viloyati") THEN -400
  ELSE IF includesAny(cityLower, {"qoraqalpog", "karakalpak"}) THEN 0
  ELSE 100

\* simple variant; thousandths
getRegionalGrowthFactorSimple(city) ==
  LET cityLower == toLowerCase(city) IN
  IF includesAny(cityLower, {"xorazm", "khorezm"}) THEN 800
  ELSE IF includesAny(cityLower, {"surxondaryo", "surkhandarya"}) THEN 700
  ELSE IF includesAny(cityLower, {"buxoro", "bukhara"}) THEN 600
  ELSE IF includesAny(cityLower, {"qashqadaryo", "kashkadarya"}) THEN 500
  ELSE IF includes(cityLower, "toshkent shahri") THEN 300
  ELSE IF includes(cityLower, "toshkent viloyati") THEN 200
  ELSE IF includesAny(cityLower, {"samarqand", "samarkand"}) THEN 400
  ELSE IF includesAny(cityLower, {"namangan", "andijon"}) THEN 300
  ELSE IF includesAny(cityLower, {"navoiy", "jizzax", "guliston", "qarshi"}) THEN 100
  ELSE IF includes(cityLower, "jizzax viloyati") THEN -300
  ELSE IF includes(cityLower, "sirdaryo viloyati") THEN -400
  ELSE IF includesAny(cityLower, {"qoraqalpog", "karakalpak"}) THEN 0
  ELSE 100

\* mutant of getMarketVolatilityFactor: the capital's rent term typed as 0.5
getMarketVolatilityFactorHalf(city, propertyType) ==
  LET cityLower == toLowerCase(city)
      rent == propertyType = "rent"
  IN
  IF includes(cityLower, "toshkent shahri") THEN (IF rent THEN 500 ELSE 200)
  ELSE IF includesAny(cityLower, {"xorazm", "surxondaryo", "buxoro", "qashqadaryo"})
    THEN (IF rent THEN 100 ELSE 0)
  ELSE IF includesAny(cityLower, {"samarqand", "namangan", "andijon", "toshkent viloyati"})
    THEN (IF rent THEN 0 ELSE -100)
  ELSE IF includesAny(cityLower, {"navoiy", "jizzax", "guliston", "qarshi"})
    THEN (IF rent THEN -100 ELSE -200)
  ELSE IF includesAny(cityLower, {"sirdaryo viloyati", "jizzax viloyati"})
    THEN (IF rent THEN -200 ELSE -300)
  ELSE IF includesAny(cityLower, {"qoraqalpog", "karakalpak"})
    THEN (IF rent THEN -100 ELSE -100)
  ELSE 0

\* simple variant only; thousandths
getMarketVolatilityFactor(city, propertyType) ==
  LET cityLower == toLowerCase(city)
      rent == propertyType = "rent"
  IN
  IF includes(cityLower, "toshkent shahri") THEN (IF rent THEN 300 ELSE 200)
  ELSE IF includesAny(cityLower, {"xorazm", "surxondaryo", "buxoro", "qashqadaryo"})
    THEN (IF rent THEN 100 ELSE 0)
  ELSE IF includesAny(cityLower, {"samarqand", "namangan", "andijon", "toshkent viloyati"})
    THEN (IF rent THEN 0 ELSE -100)
  ELSE IF includesAny(cityLower, {"navoiy", "jizzax", "guliston", "qarshi"})
    THEN (IF rent THEN -100 ELSE -200)
  ELSE IF includesAny(cityLower, {"sirdaryo viloyati", "jizzax viloyati"})
    THEN (IF rent THEN -200 ELSE -300)
  ELSE IF includesAny(cityLower, {"qoraqalpog", "karakalpak"})
    THEN (IF rent THEN -100 ELSE -100)
  ELSE 0

-----------------------------------------------------------------------------
(* Location score, tenths *)

PremiumDistricts == {"mirobod", "shayxontohur", "yakkasaroy", "chilonzor",
                     "yunusobod", "mirzo ulug'bek"}
MidDistricts == {"olmazor", "sirg'ali", "uchtepa", "yangihayot"}
LowerDistricts == {"sergeli", "bektemir", "yangiyo'l", "quyichirchiq",
                   "piskent", "zangiota"}

\* extended variant: the city-tier base value
LocationBase(cityLower) ==
  IF includes(cityLower, "toshkent shahri") THEN 98
  ELSE IF includes(cityLower, "toshkent viloyati") THEN 75
  ELSE IF includesAny(cityLower, {"samarqand", "buxoro"}) THEN 85
  ELSE IF includesAny(cityLower, RegionalCenters) THEN 72
  ELSE IF includesAny(cityLower, IndustrialCities) THEN 64
  ELSE IF includesAny(cityLower, {"viloyati", "viloyat"}) THEN 60
  ELSE IF includesAny(cityLower, {"qoraqalpog", "karakalpak"}) THEN 48
  ELSE IF includesAny(cityLower, {"denov", "kattaqo'rg'on"}) THEN 55
  ELSE 50

\* simple variant: the city-tier base value
LocationBaseSimple(cityLower) ==
  IF includes(cityLower, "toshkent shahri") THEN 98
  ELSE IF includes(cityLower, "toshkent viloyati") THEN 75
  ELSE IF includesAny(cityLower, {"samarqand", "buxoro"}) THEN 85
  ELSE IF includesAny(cityLower, RegionalCenters) THEN 72
  ELSE IF includesAny(cityLower, IndustrialCities) THEN 64
  ELSE IF includesAny(cityLower, {"viloyati", "viloyat"}) THEN 60
  ELSE IF includesAny(cityLower, {"qoraqalpog", "karakalpak"}) THEN 48
  ELSE IF includesAny(cityLower, {"denov", "kattaqo'rg'on"}) THEN 55
  ELSE 50

\* mutant of getLocationScore: a module-level counter of earlier calls leaks
\* into the score
getLocationScoreDrifting(city, district) ==
  LET earlier == IF "results" \in DOMAIN call THEN Len(call.results) ELSE scorerCalls
  IN Clamp(LocationBase(toLowerCase(city)) - 10 * earlier)

\* extended variant
getLocationScore(city, district) ==
  LET cityLower == toLowerCase(city)
      districtLower == toLowerCase(district)
      baseScore == LocationBase(cityLower)
      adjusted ==
        IF includes(cityLower, "toshkent shahri") THEN
          IF includesAny(districtLower, PremiumDistricts) THEN baseScore + 15
          ELSE IF includesAny(districtLower, MidDistricts) THEN baseScore + 5
          ELSE IF includesAny(districtLower, LowerDistricts) THEN baseScore - 12
          ELSE baseScore
        ELSE IF includes(cityLower, "samarqand") THEN
          IF includesAny(districtLower, {"registon", "siyob"}) THEN baseScore + 8
          ELSE baseScore
        ELSE IF includes(cityLower, "buxoro") THEN
          IF includesAny(districtLower, {"poi kalon", "lyabi hauz"}) THEN baseScore + 8
          ELSE baseScore
        ELSE IF includesAny(cityLower, {"andijon", "namangan"}) THEN
          IF includesAny(districtLower, {"markaz", "center"}) THEN baseScore + 6
          ELSE baseScore
        ELSE baseScore
  IN Clamp(adjusted)

\* simple variant
getLocationScoreSimple(city, district) ==
  LET cityLower == toLowerCase(city)
      districtLower == toLowerCase(district)
      baseScore == LocationBaseSimple(cityLower)
      adjusted ==
        IF includes(cityLower, "toshkent shahri") THEN
          IF includesAny(districtLower, PremiumDistricts) THEN baseScore + 15
          ELSE IF includesAny(districtLower, MidDistricts) THEN baseScore + 5
          ELSE IF includesAny(districtLower, LowerDistricts) THEN baseScore - 12
          ELSE baseScore
        ELSE IF includes(cityLower, "samarqand") THEN
          IF includesAny(districtLower, {"registon", "siyob"}) THEN baseScore + 8
          ELSE baseScore
        ELSE IF includes(cityLower, "buxoro") THEN
          IF includesAny(districtLower, {"poi kalon", "lyabi hauz"}) THEN baseScore + 8
          ELSE baseScore
        ELSE IF includes(cityLower, "andijon") THEN
          IF includesAny(districtLower, {"markaz", "center"}) THEN baseScore + 6
          ELSE baseScore
        ELSE IF includes(cityLower, "namangan") THEN
          IF includesAny(districtLower, {"markaz", "center"}) THEN baseScore + 6
          ELSE baseScore
        ELSE baseScore
  IN Clamp(adjusted)

-----------------------------------------------------------------------------
(* Building quality, tenths.  currentYear is new Date().getFullYear().      *)

CurrentYear == 2025

BuildingTypePoints(buildingType) ==
  CASE buildingType = "penthouse" -> 30
    [] buildingType = "house" -> 22
    [] buildingType = "apartment" -> 12
    [] buildingType = "studio" -> 3
    [] OTHER -> 0

ConditionPoints(condition) ==
  CASE condition = "new" -> 25
    [] condition = "renovated" -> 20
    [] condition = "good" -> 8
    [] condition = "needs_renovation" -> -20
    [] OTHER -> 0

AgePoints(age) ==
  IF age <= 3 THEN 20
  ELSE IF age <= 7 THEN 15
  ELSE IF age <= 15 THEN 10
  ELSE IF age <= 25 THEN 5
  ELSE IF age <= 40 THEN 0
  ELSE IF age <= 60 THEN -8
  ELSE -18

FloorPoints(floor) ==
  IF floor = 1 THEN -10
  ELSE IF floor = 2 THEN 12
  ELSE IF floor >= 3 /\ floor <= 5 THEN 15
  ELSE IF floor >= 6 /\ floor <= 8 THEN 10
  ELSE IF floor >= 9 /\ floor <= 12 THEN 3
  ELSE IF floor > 12 THEN -5
  ELSE 0

TotalFloorsPoints(totalFloors) ==
  IF totalFloors >= 4 /\ totalFloors <= 6 THEN 8
  ELSE IF totalFloors >= 7 /\ totalFloors <= 9 THEN 5
  ELSE IF totalFloors >= 10 /\ totalFloors <= 15 THEN 0
  ELSE IF totalFloors > 15 THEN -5
  ELSE 0

\* extended variant
calculateBuildingQualityScore(buildingType, condition, yearBuilt, floor, totalFloors) ==
  LET age == CurrentYear - yearBuilt IN
  Clamp(50 + BuildingTypePoints(buildingType) + ConditionPoints(condition)
           + AgePoints(age) + FloorPoints(floor) + TotalFloorsPoints(totalFloors))

\* simple variant only: the construction-era term
EraPoints(yearBuilt, totalFloors) ==
  IF yearBuilt >= 2010 THEN (IF totalFloors >= 5 THEN 3 ELSE 0)
  ELSE IF yearBuilt >= 1990 THEN 1
  ELSE IF yearBuilt >= 1970 THEN -2
  ELSE 0

\* simple variant
getBuildingScore(buildingType, condition, yearBuilt, floor, totalFloors) ==
  LET age == CurrentYear - yearBuilt IN
  Clamp(50 + BuildingTypePoints(buildingType) + ConditionPoints(condition)
           + AgePoints(age) + FloorPoints(floor) + TotalFloorsPoints(totalFloors)
           + EraPoints(yearBuilt, totalFloors))

-----------------------------------------------------------------------------
(* Amenity score, tenths *)

positiveAmenities == <<
  [keywords |-> {"zamonaviy", "modern", "renovated", "ta'mirlangan"}, points |-> 12],
  [keywords |-> {"konditsioner", "air conditioning", "ac"}, points |-> 10],
  [keywords |-> {"internet", "wi-fi", "wifi"}, points |-> 8],
  [keywords |-> {"balkon", "balcony", "terrace", "terrasa"}, points |-> 8],
  [keywords |-> {"parking", "garage", "mashina joyi"}, points |-> 8],
  [keywords |-> {"lift", "elevator"}, points |-> 6],
  [keywords |-> {"security", "xavfsizlik", "guard"}, points |-> 6],
  [keywords |-> {"gym", "fitness", "sport"}, points |-> 8],
  [keywords |-> {"pool", "basseyn", "rooftop"}, points |-> 10],
  [keywords |-> {"dishwasher", "posuda yuvish mashinasi"}, points |-> 5],
  [keywords |-> {"washing machine", "kir yuvish mashinasi"}, points |-> 5],
  [keywords |-> {"furnished", "mebellar bilan"}, points |-> 7],
  [keywords |-> {"metro", "metroga yaqin"}, points |-> 6],
  [keywords |-> {"school", "maktab", "university", "universitet"}, points |-> 4],
  [keywords |-> {"hospital", "shifoxona", "clinic"}, points |-> 4],
  [keywords |-> {"market", "bozor", "supermarket"}, points |-> 3] >>

negativeIndicators == <<
  [keywords |-> {"needs work", "fixer", "ta'mirga muhtoj"}, points |-> -12],
  [keywords |-> {"noisy", "loud", "shovqinli"}, points |-> -8],
  [keywords |-> {"small", "cramped", "kichik"}, points |-> -6],
  [keywords |-> {"old", "eski", "qadimiy"}, points |-> -4],
  [keywords |-> {"dirty", "kir", "iflos"}, points |-> -8],
  [keywords |-> {"broken", "buzilgan", "ishlamaydi"}, points |-> -6] >>

\* groups.forEach(({keywords, points}) => { if (keywords.some(...)) score += points })
RECURSIVE GroupPoints(_, _, _)
GroupPoints(descLower, groups, i) ==
  IF i > Len(groups) THEN 0
  ELSE (IF includesAny(descLower, groups[i].keywords) THEN groups[i].points ELSE 0)
       + GroupPoints(descLower, groups, i + 1)

\* extended variant
calculateAmenitiesScore(description) ==
  LET descLower == toLowerCase(description) IN
  Clamp(50 + GroupPoints(descLower, positiveAmenities, 1)
           + GroupPoints(descLower, negativeIndicators, 1))

\* simple variant: one if-statement per keyword group
Hit(descLower, keywords, points) ==
  IF includesAny(descLower, keywords) THEN points ELSE 0

getAmenityScore(description) ==
  LET d == toLowerCase(description) IN
  Clamp(50
    + Hit(d, {"zamonaviy", "modern", "renovated", "ta'mirlangan"}, 12)
    + Hit(d, {"konditsioner", "air conditioning", "ac"}, 10)
    + Hit(d, {"internet", "wi-fi", "wifi"}, 8)
    + Hit(d, {"balkon", "balcony", "terrace", "terrasa"}, 8)
    + Hit(d, {"parking", "garage", "mashina joyi"}, 8)
    + Hit(d, {"lift", "elevator", "lift"}, 6)
    + Hit(d, {"security", "xavfsizlik", "guard"}, 6)
    + Hit(d, {"gym", "fitness", "sport"}, 8)
    + Hit(d, {"pool", "basseyn", "rooftop"}, 10)
    + Hit(d, {"dishwasher", "posuda yuvish mashinasi"}, 5)
    + Hit(d, {"washing machine", "kir yuvish mashinasi"}, 5)
    + Hit(d, {"furnished", "mebellar bilan"}, 7)
    + Hit(d, {"metro", "metroga yaqin"}, 6)
    + Hit(d, {"school", "maktab", "university", "universitet"}, 4)
    + Hit(d, {"hospital", "shifoxona", "clinic"}, 4)
    + Hit(d, {"market", "bozor", "supermarket"}, 3)
    + Hit(d, {"needs work", "fixer", "ta'mirga muhtoj"}, -12)
    + Hit(d, {"noisy", "loud", "shovqinli"}, -8)
    + Hit(d, {"small", "cramped", "kichik"}, -6)
    + Hit(d, {"old", "eski", "qadimiy"}, -4)
    + Hit(d, {"dirty", "kir", "iflos"}, -8)
    + Hit(d, {"broken", "buzilgan", "ishlamaydi"}, -6))

-----------------------------------------------------------------------------
(* Size efficiency, tenths.  sqmPerRoom = size / rooms, rooms # 0.         *)

\* size / rooms >= k
SqmPerRoomAtLeast(size, rooms, k) ==
  IF rooms > 0 THEN size >= k * rooms
  ELSE IF rooms < 0 THEN size <= k * rooms
  ELSE size > 0  \* size / 0 is Infinity, -Infinity or NaN

\* mutant of calculateSizeEfficiencyScore: the rooms === 0 guard is left out
calculateSizeEfficiencyScoreUnguarded(size, rooms) ==
  IF SqmPerRoomAtLeast(size, rooms, 25) THEN 90
  ELSE IF SqmPerRoomAtLeast(size, rooms, 20) THEN 80
  ELSE IF SqmPerRoomAtLeast(size, rooms, 15) THEN 70
  ELSE IF SqmPerRoomAtLeast(size, rooms, 12) THEN 60
  ELSE IF SqmPerRoomAtLeast(size, rooms, 10) THEN 50
  ELSE IF SqmPerRoomAtLeast(size, rooms, 8) THEN 40
  ELSE 30

\* the band chain of the extended variant
SizeBand(size, rooms) ==
  IF SqmPerRoomAtLeast(size, rooms, 25) THEN 90
  ELSE IF SqmPerRoomAtLeast(size, rooms, 20) THEN 80
  ELSE IF SqmPerRoomAtLeast(size, rooms, 15) THEN 70
  ELSE IF SqmPerRoomAtLeast(size, rooms, 12) THEN 60
  ELSE IF SqmPerRoomAtLeast(size, rooms, 10) THEN 50
  ELSE IF SqmPerRoomAtLeast(size, rooms, 8) THEN 40
  ELSE 30

\* extended variant
calculateSizeEfficiencyScore(size, rooms) ==
  IF rooms = 0 THEN 30 ELSE SizeBand(size, rooms)

\* the band chain of the simple variant
SizeBandSimple(size, rooms) ==
  IF SqmPerRoomAtLeast(size, rooms, 25) THEN 90
  ELSE IF SqmPerRoomAtLeast(size, rooms, 20) THEN 80
  ELSE IF SqmPerRoomAtLeast(size, rooms, 15) THEN 70
  ELSE IF SqmPerRoomAtLeast(size, rooms, 12) THEN 60
  ELSE IF SqmPerRoomAtLeast(size, rooms, 10) THEN 50
  ELSE IF SqmPerRoomAtLeast(size, rooms, 8) THEN 40
  ELSE 30

\* simple variant
getSizeEfficiency(size, rooms) ==
  IF rooms = 0 THEN 30 ELSE SizeBandSimple(size, rooms)

-----------------------------------------------------------------------------
(* Price bands.  r is the price ratio                                      *)
(*   (price / size) / expectedPricePerSqm  =  (10 * price) / (size * e10)  *)
(* with e10 the expected price in tenths.                                  *)

\* mutant of PriceRatio: the price is not divided by the size
PriceRatioOfTotal(price, size, expected10) == <<10 * price, expected10>>

PriceRatio(price, size, expected10) == <<10 * price, size * expected10>>

\* mutant of calculatePriceComparisonScore: the values of two neighbouring
\* bands exchanged
calculatePriceComparisonScoreSwapped(priceRatio) ==
  IF RatioLess(priceRatio, 65) THEN 95
  ELSE IF RatioLess(priceRatio, 75) THEN 85
  ELSE IF RatioLess(priceRatio, 85) THEN 75
  ELSE IF RatioLess(priceRatio, 95) THEN 65
  ELSE IF RatioLess(priceRatio, 105) THEN 45
  ELSE IF RatioLess(priceRatio, 115) THEN 55
  ELSE IF RatioLess(priceRatio, 130) THEN 35
  ELSE IF RatioLess(priceRatio, 150) THEN 25
  ELSE IF RatioLess(priceRatio, 200) THEN 15
  ELSE 10

\* extended variant: an absolute score, tenths
calculatePriceComparisonScore(priceRatio) ==
  IF RatioLess(priceRatio, 65) THEN 95
  ELSE IF RatioLess(priceRatio, 75) THEN 85
  ELSE IF RatioLess(priceRatio, 85) THEN 75
  ELSE IF RatioLess(priceRatio, 95) THEN 65
  ELSE IF RatioLess(priceRatio, 105) THEN 55
  ELSE IF RatioLess(priceRatio, 115) THEN 45
  ELSE IF RatioLess(priceRatio, 130) THEN 35
  ELSE IF RatioLess(priceRatio, 150) THEN 25
  ELSE IF RatioLess(priceRatio, 200) THEN 15
  ELSE 10

\* simple variant: a contribution added to the neutral 5, thousandths
PriceBandContribution(priceRatio) ==
  IF RatioLess(priceRatio, 65) THEN 3500
  ELSE IF RatioLess(priceRatio, 80) THEN 2800
  ELSE IF RatioLess(priceRatio, 90) THEN 2000
  ELSE IF RatioLess(priceRatio, 100) THEN 1200
  ELSE IF RatioLess(priceRatio, 110) THEN 200
  ELSE IF RatioLess(priceRatio, 125) THEN -1000
  ELSE IF RatioLess(priceRatio, 150) THEN -2500
  ELSE IF RatioLess(priceRatio, 200) THEN -4000
  ELSE -5500

-----------------------------------------------------------------------------
(* Rounding.  Math.round rounds half up; \div is the floor division.      *)

\* Math.round(v * 10) / 10, v and the result in thousandths
RoundOneDecimal(v) == ((v + 50) \div 100) * 100

\* Math.round(v * 10) / 10, v in units of 1 / (1000 * RandRes),
\* the result in thousandths
RoundOneDecimalFine(v) == ((v + 50 * RandRes) \div (100 * RandRes)) * 100

\* Number.prototype.toFixed(0) of num / den, for num >= 0 and den > 0
ToFixed0(num, den) == (2 * num + den) \div (2 * den)

\* mutant of Jitter: the factor typed as 1.2
JitterWide(k) == (2 * k - RandRes) * 600

\* (Math.random() - 0.5) * 0.6 for Math.random() = k / RandRes,
\* in units of 1 / (1000 * RandRes)
Jitter(k) == (2 * k - RandRes) * 300

\* Math.floor(Math.random() * span + low) for Math.random() = k / CountRes
ListingsCount(k, span, low) == (k * span) \div CountRes + low

\* mutant of LabelOf: the Underpriced threshold typed as 6.0
LabelOfThreshold6(finalScore) ==
  IF finalScore >= 8000 THEN "Underpriced"
  ELSE IF finalScore >= 6000 THEN "Underpriced"
  ELSE IF finalScore >= 4000 THEN "Fair"
  ELSE "Overpriced"

LabelOf(finalScore) ==
  IF finalScore >= 8000 THEN "Underpriced"
  ELSE IF finalScore >= 6500 THEN "Underpriced"
  ELSE IF finalScore >= 4000 THEN "Fair"
  ELSE "Overpriced"

\* the simple variant's copy of the same chain
LabelOfSimple(finalScore) ==
  IF finalScore >= 8000 THEN "Underpriced"
  ELSE IF finalScore >= 6500 THEN "Underpriced"
  ELSE IF finalScore >= 4000 THEN "Fair"
  ELSE "Overpriced"

-----------------------------------------------------------------------------
(* Extended variant: the synthetic parts of the result *)

PricePosition(r, lowPct, highPct) ==
  IF RatioLess(r, lowPct) THEN "lower"
  ELSE IF RatioGreater(r, highPct) THEN "higher"
  ELSE "average"

\* mutant of getPlatformComparison: the first average price follows a draw
getPlatformComparisonDrawn(city, propertyType, price, size, counts) ==
  LET basePrice == getExpectedPricePerSqm(city, propertyType)
      r == PriceRatio(price, size, basePrice)
  IN << [platform |-> "OLX Uzbekistan", averagePrice |-> basePrice * (1000 + 150 * counts[1]),
         listingsCount |-> ListingsCount(counts[1], 500, 200),
         pricePosition |-> PricePosition(r, 90, 110)],
        [platform |-> "We Band", averagePrice |-> basePrice * 955,
         listingsCount |-> ListingsCount(counts[2], 150, 50),
         pricePosition |-> PricePosition(r, 85, 105)],
        [platform |-> "Uy.uz", averagePrice |-> basePrice * 1030,
         listingsCount |-> ListingsCount(counts[3], 100, 30),
         pricePosition |-> PricePosition(r, 88, 108)],
        [platform |-> "Machinuka", averagePrice |-> basePrice * 985,
         listingsCount |-> ListingsCount(counts[4], 80, 20),
         pricePosition |-> PricePosition(r, 92, 112)] >>

\* averagePrice is basePrice * (1 +- variance * f), kept as e10 * permille
\* (units of 1 / 10000); counts[i] is the i-th Math.random() draw
getPlatformComparison(city, propertyType, price, size, counts) ==
  LET basePrice == getExpectedPricePerSqm(city, propertyType)
      r == PriceRatio(price, size, basePrice)
  IN << [platform |-> "OLX Uzbekistan", averagePrice |-> basePrice * 1075,
         listingsCount |-> ListingsCount(counts[1], 500, 200),
         pricePosition |-> PricePosition(r, 90, 110)],
        [platform |-> "We Band", averagePrice |-> basePrice * 955,
         listingsCount |-> ListingsCount(counts[2], 150, 50),
         pricePosition |-> PricePosition(r, 85, 105)],
        [platform |-> "Uy.uz", averagePrice |-> basePrice * 1030,
         listingsCount |-> ListingsCount(counts[3], 100, 30),
         pricePosition |-> PricePosition(r, 88, 108)],
        [platform |-> "Machinuka", averagePrice |-> basePrice * 985,
         listingsCount |-> ListingsCount(counts[4], 80, 20),
         pricePosition |-> PricePosition(r, 92, 112)] >>

\* ((priceRatio - 1) * 100).toFixed(0) or ((1 - priceRatio) * 100).toFixed(0)
PriceDiff(r) ==
  IF r[1] > r[2] THEN ToFixed0((r[1] - r[2]) * 100, r[2])
  ELSE ToFixed0((r[2] - r[1]) * 100, r[2])

\* the template is chosen by the label; the interpolated numbers are kept
generateDetailedExplanation(label, priceRatio, platformComparison) ==
  LET olxPrice == platformComparison[1].averagePrice IN
  [template |-> label,
   priceDiff |-> PriceDiff(priceRatio),
   direction |-> IF label = "Underpriced" THEN "past"
                 ELSE IF label = "Fair" THEN "mos" ELSE "yuqori",
   olxPrice |-> ToFixed0(olxPrice, 10000)]

generatePriceReason(priceRatio) ==
  IF RatioLess(priceRatio, 85)
    THEN [template |-> "past", diffPercent |-> PriceDiff(priceRatio)]
  ELSE IF RatioLeq(priceRatio, 115)
    THEN [template |-> "mos", diffPercent |-> PriceDiff(priceRatio)]
  ELSE [template |-> "yuqori", diffPercent |-> PriceDiff(priceRatio)]

generateLocationReason(score) ==
  IF score >= 80 THEN "yaxshi" ELSE IF score >= 60 THEN "o'rtacha" ELSE "kamroq"

generateBuildingReason(yearBuilt, floor) ==
  LET age == CurrentYear - yearBuilt IN
  [age |-> IF age <= 5 THEN "yangi" ELSE IF age <= 15 THEN "yaxshi" ELSE "eski",
   floor |-> IF floor = 1 THEN "birinchi"
             ELSE IF floor >= 2 /\ floor <= 5 THEN "optimal" ELSE "boshqa"]

AmenityPattern == <<"konditsioner", "internet", "balkon", "parking", "lift",
                    "security", "gym", "pool", "furnished", "metro", "school",
                    "hospital", "market">>

\* the length of the first alternative of the pattern matching at position i, or 0
MatchAt(d, i) ==
  LET hits == {j \in 1..Len(AmenityPattern) :
                 /\ i + Len(AmenityPattern[j]) - 1 <= Len(d)
                 /\ SubSeq(d, i, i + Len(AmenityPattern[j]) - 1) = AmenityPattern[j]}
  IN IF hits = {} THEN 0
     ELSE Len(AmenityPattern[CHOOSE j \in hits : \A h \in hits : j <= h])

\* (description.match(/.../gi) || []).length
RECURSIVE MatchCount(_, _)
MatchCount(d, i) ==
  IF i > Len(d) THEN 0
  ELSE LET m == MatchAt(d, i) IN
       IF m > 0 THEN 1 + MatchCount(d, i + m) ELSE MatchCount(d, i + 1)

generateAmenitiesReason(description, score) ==
  [template |-> IF score >= 70 THEN "ko'p" ELSE IF score >= 50 THEN "o'rtacha" ELSE "kam",
   amenityCount |-> MatchCount(toLowerCase(description), 1)]

generateSizeReason(score) ==
  IF score >= 70 THEN "samarali" ELSE IF score >= 50 THEN "o'rtacha" ELSE "past"

getMarketTrend(city) ==
  LET cityLower == toLowerCase(city) IN
  IF includesAny(cityLower, {"xorazm", "surxondaryo", "buxoro"}) THEN "O'sib bormoqda"
  ELSE IF includesAny(cityLower, {"toshkent shahri", "samarqand"}) THEN "Barqaror o'sish"
  ELSE IF includesAny(cityLower, {"jizzax viloyati", "sirdaryo viloyati"})
    THEN "Kamayib bormoqda"
  ELSE "Barqaror"

getCompetitionLevel(city) ==
  LET cityLower == toLowerCase(city) IN
  IF includes(cityLower, "toshkent shahri") THEN "Yuqori"
  ELSE IF includesAny(cityLower, {"samarqand", "buxoro", "namangan", "andijon"})
    THEN "O'rtacha"
  ELSE "Past"

\* averagePrice in tenths, the range in hundredths
generateMarketInsights(city, propertyType) ==
  LET expectedPricePerSqm == getExpectedPricePerSqm(city, propertyType) IN
  [averagePrice |-> expectedPricePerSqm,
   priceRange |-> [min |-> expectedPricePerSqm * 8, max |-> expectedPricePerSqm * 12],
   marketTrend |-> getMarketTrend(city),
   competition |-> getCompetitionLevel(city)]

-----------------------------------------------------------------------------
(* analyzeApartment *)

\* mutant of WeightedSum: the weights of amenities and size efficiency exchanged
WeightedSumSwapped(priceComparisonScore, locationScore, buildingQualityScore, amenitiesScore, sizeEfficiencyScore, regionalGrowthFactor) ==
  5000 + (priceComparisonScore - 50) * 45
       + (locationScore - 50) * 30
       + (buildingQualityScore - 50) * 15
       + (amenitiesScore - 50) * 8
       + (sizeEfficiencyScore - 50) * 2
       + regionalGrowthFactor

\* extended variant: the pre-clamp, pre-rounding score, thousandths
WeightedSum(priceComparisonScore, locationScore, buildingQualityScore, amenitiesScore, sizeEfficiencyScore, regionalGrowthFactor) ==
  5000 + (priceComparisonScore - 50) * 45
       + (locationScore - 50) * 30
       + (buildingQualityScore - 50) * 15
       + (amenitiesScore - 50) * 2
       + (sizeEfficiencyScore - 50) * 8
       + regionalGrowthFactor

\* extended variant; counts are the four listingsCount draws
analyzeApartment(data, counts) ==
  LET expectedPricePerSqm == getExpectedPricePerSqm(data.city, data.propertyType)
      priceRatio == PriceRatio(data.price, data.size, expectedPricePerSqm)
      priceComparisonScore == calculatePriceComparisonScore(priceRatio)
      locationScore == getLocationScore(data.city, data.district)
      buildingQualityScore ==
        calculateBuildingQualityScore(data.buildingType, data.condition,
                                      data.yearBuilt, data.floor, data.totalFloors)
      amenitiesScore == calculateAmenitiesScore(data.description)
      sizeEfficiencyScore == calculateSizeEfficiencyScore(data.size, data.rooms)
      platformComparison ==
        getPlatformComparison(data.city, data.propertyType, data.price, data.size, counts)
      finalScore ==
        ClampFinal(RoundOneDecimal(WeightedSum(priceComparisonScore, locationScore,
                                      buildingQualityScore, amenitiesScore,
                                      sizeEfficiencyScore,
                                      getRegionalGrowthFactor(data.city))))
      label == LabelOf(finalScore)
  IN [score |-> finalScore,
      label |-> label,
      explanation |-> generateDetailedExplanation(label, priceRatio, platformComparison),
      factors |->
        [priceComparison |-> [score |-> priceComparisonScore,
                              reason |-> generatePriceReason(priceRatio),
                              comparison |-> platformComparison],
         location |-> [score |-> locationScore,
                       reason |-> generateLocationReason(locationScore)],
         buildingQuality |-> [score |-> buildingQualityScore,
                              reason |-> generateBuildingReason(data.yearBuilt, data.floor)],
         amenities |-> [score |-> amenitiesScore,
                        reason |-> generateAmenitiesReason(data.description, amenitiesScore)],
         sizeEfficiency |-> [score |-> sizeEfficiencyScore,
                             reason |-> generateSizeReason(sizeEfficiencyScore)]],
      marketInsights |-> generateMarketInsights(data.city, data.propertyType)]

\* simple variant: the deterministic weighted sum of the sub-scores
\* (neutral 5, price band, location, building, size, amenities, growth), thousandths
DeterministicSum(data) ==
  LET expectedPricePerSqm == getExpectedPricePerSqmSimple(data.city, data.propertyType)
      priceRatio == PriceRatio(data.price, data.size, expectedPricePerSqm)
      locationScore == getLocationScoreSimple(data.city, data.district)
      sizeEfficiency == getSizeEfficiency(data.size, data.rooms)
      buildingScore == getBuildingScore(data.buildingType, data.condition,
                                        data.yearBuilt, data.floor, data.totalFloors)
      amenityScore == getAmenityScore(data.description)
  IN 5000 + PriceBandContribution(priceRatio)
          + (locationScore - 50) * 65
          + (buildingScore - 50) * 35
          + (sizeEfficiency - 50) * 25
          + (amenityScore - 50) * 10
          + getRegionalGrowthFactorSimple(data.city)

\* simple variant: baseScore before rounding, units of 1 / (1000 * RandRes);
\* k is the jitter draw
BaseScoreSimple(data, k) ==
  (DeterministicSum(data) + getMarketVolatilityFactor(data.city, data.propertyType))
    * RandRes + Jitter(k)

\* simple variant; k is the jitter draw, pick the index
\* Math.floor(Math.random() * labelExplanations.length)
analyzeApartmentSimple(data, k, pick) ==
  LET finalScore == ClampFinal(RoundOneDecimalFine(BaseScoreSimple(data, k)))
      label == LabelOfSimple(finalScore)
  IN [score |-> finalScore,
      label |-> label,
      explanation |-> [template |-> label, pick |-> pick]]

-----------------------------------------------------------------------------
(* Requests.  A body either fails to parse or parses to a record of the    *)
(* 13 fields of ApartmentData.  The type annotation is erased at run time: *)
(* `absent` names the fields the body leaves out (they read as undefined), *)
(* `nonString` the string fields whose JSON value is a non-zero number     *)
(* (truthy, and without the methods of a string).                          *)

NumericFields == {"price", "size", "rooms", "floor", "totalFloors", "yearBuilt"}
StringFields == {"propertyType", "city", "district", "exactLocation",
                 "buildingType", "condition", "description"}
RequiredFields == NumericFields \cup StringFields

Listing(propertyType, price, size, city, district, rooms, floor, totalFloors, buildingType, condition, yearBuilt, description) ==
  [propertyType |-> propertyType, price |-> price, size |-> size, city |-> city,
   district |-> district, exactLocation |-> "Bunyodkor 12", rooms |-> rooms,
   floor |-> floor, totalFloors |-> totalFloors, buildingType |-> buildingType,
   condition |-> condition, yearBuilt |-> yearBuilt, description |-> description,
   absent |-> {}, nonString |-> {}]

\* the fields analyzeApartment calls toLowerCase() or match() on
LowerCasedFields == {"city", "district", "description"}

\* !data[f]: undefined, 0 and "" are falsy
Falsy(data, f) ==
  \/ f \in data.absent
  \/ /\ f \notin data.nonString
     /\ IF f \in NumericFields THEN data[f] = 0 ELSE data[f] = ""

\* mutant of Throws: only an exception raised on the city reaches the catch
ThrowsCityOnly(data) == "city" \in data.nonString

\* city.toLowerCase(), district.toLowerCase() or description.toLowerCase()
\* is not a function: analyzeApartment throws a TypeError
Throws(data) == data.nonString \cap LowerCasedFields # {}

\* the first if of POST
MissingField(data) == \E f \in RequiredFields : Falsy(data, f)

\* mutant of NonPositive: the floor check is left out
NonPositiveNoFloor(data) ==
  \/ data.price <= 0
  \/ data.size <= 0
  \/ data.rooms <= 0
  \/ data.totalFloors <= 0
  \/ data.yearBuilt <= 1900

\* the second if of POST
NonPositive(data) ==
  \/ data.price <= 0
  \/ data.size <= 0
  \/ data.rooms <= 0
  \/ data.floor <= 0
  \/ data.totalFloors <= 0
  \/ data.yearBuilt <= 1900

NoResponse == [none |-> TRUE]
MissingFieldError == [error |-> "Barcha maydonlar to'ldirilishi shart"]
NonPositiveError ==
  [error |-> "Narx, maydon, xonalar, qavat va qurilgan yil musbat raqam bo'lishi kerak"]
InternalError == [error |-> "Mulkni tahlil qilishda xatolik yuz berdi"]

NoCall == [fn |-> "none", size |-> 0, rooms |-> 0, result |-> 0]

\* no request in flight, the page not opened
RestIdle ==
  /\ requests = <<>>
  /\ client = [page |-> "closed"]
  /\ localStorage = <<>>
  /\ now = 0

-----------------------------------------------------------------------------
(* POST /api/analyze, one action per step of the handler *)

\* request.json() throws: the catch block answers 500
ParseError ==
  /\ pc = "received"
  /\ ~body.parses
  /\ pc' = "done"
  /\ status' = 500
  /\ response' = InternalError
  /\ UNCHANGED <<variant, body, scorerCalls, resubmits, prev, call>>
  /\ UNCHANGED restVars

RejectMissing ==
  /\ pc = "received"
  /\ body.parses
  /\ MissingField(body.data)
  /\ pc' = "done"
  /\ status' = 400
  /\ response' = MissingFieldError
  /\ UNCHANGED <<variant, body, scorerCalls, resubmits, prev, call>>
  /\ UNCHANGED restVars

RejectNonPositive ==
  /\ pc = "received"
  /\ body.parses
  /\ ~MissingField(body.data)
  /\ NonPositive(body.data)
  /\ pc' = "done"
  /\ status' = 400
  /\ response' = NonPositiveError
  /\ UNCHANGED <<variant, body, scorerCalls, resubmits, prev, call>>
  /\ UNCHANGED restVars

\* validation passed: await the artificial delay
StartDelay ==
  /\ pc = "received"
  /\ body.parses
  /\ ~MissingField(body.data)
  /\ ~NonPositive(body.data)
  /\ pc' = "delay"
  /\ UNCHANGED <<variant, body, status, response, scorerCalls, resubmits, prev, call>>
  /\ UNCHANGED restVars

\* the timer fired: analyzeApartment(data) and NextResponse.json(result)
AnalyzeExtended ==
  /\ pc = "delay"
  /\ variant = "extended"
  /\ ~Throws(body.data)
  /\ \E counts \in [1..4 -> 0..(CountRes - 1)] :
       response' = analyzeApartment(body.data, counts)
  /\ scorerCalls' = scorerCalls + 1
  /\ status' = 200
  /\ pc' = "done"
  /\ UNCHANGED <<variant, body, resubmits, prev, call>>
  /\ UNCHANGED restVars

AnalyzeSimple ==
  /\ pc = "delay"
  /\ variant = "simple"
  /\ ~Throws(body.data)
  /\ \E k \in 0..(RandRes - 1), pick \in 0..2 :
       response' = analyzeApartmentSimple(body.data, k, pick)
  /\ scorerCalls' = scorerCalls + 1
  /\ status' = 200
  /\ pc' = "done"
  /\ UNCHANGED <<variant, body, resubmits, prev, call>>
  /\ UNCHANGED restVars

\* the timer fired: analyzeApartment(data) throws and the catch block answers 500
AnalyzeThrows ==
  /\ pc = "delay"
  /\ Throws(body.data)
  /\ scorerCalls' = scorerCalls + 1
  /\ status' = 500
  /\ response' = InternalError
  /\ pc' = "done"
  /\ UNCHANGED <<variant, body, resubmits, prev, call>>
  /\ UNCHANGED restVars

\* the client submits the identical payload again
Resubmit ==
  /\ pc = "done"
  /\ resubmits > 0
  /\ resubmits' = resubmits - 1
  /\ prev' = [status |-> status, response |-> response]
  /\ pc' = "received"
  /\ status' = 0
  /\ response' = NoResponse
  /\ UNCHANGED <<variant, body, scorerCalls, call>>
  /\ UNCHANGED restVars

Next ==
  \/ ParseError
  \/ RejectMissing
  \/ RejectNonPositive
  \/ StartDelay
  \/ AnalyzeExtended
  \/ AnalyzeSimple
  \/ AnalyzeThrows
  \/ Resubmit

-----------------------------------------------------------------------------
(* The inputs the model draws from *)

Variants == {"extended", "simple"}
PropertyTypes == {"rent", "sale"}
BuildingTypes == {"apartment", "house", "studio", "penthouse"}
Conditions == {"new", "renovated", "good", "needs_renovation"}

\* the options of the form's city select (src/app/page.tsx)
Cities == {"Toshkent Shahri", "Toshkent Viloyati", "Andijon Viloyati",
           "Buxoro Viloyati", "Farg'ona Viloyati", "Jizzax Viloyati",
           "Qashqadaryo Viloyati", "Xorazm Viloyati", "Namangan Viloyati",
           "Navoiy Viloyati", "Samarqand Viloyati", "Sirdaryo Viloyati",
           "Surxondaryo Viloyati", "Qoraqalpog'iston Respublikasi",
           "Samarqand", "Buxoro", "Namangan", "Andijon", "Nukus", "Qo'qon",
           "Marg'ilon", "Urganch", "Navoiy", "Jizzax", "Termiz", "Guliston",
           "Qarshi", "Chirchiq", "Angren", "Bekobod", "Denov", "Kattaqo'rg'on",
           "Boshqa"}

\* <<city, district>> pairs from every tier of the location table
Locations == {<<"Toshkent Shahri", "Chilonzor">>, <<"Xorazm Viloyati", "Urganch">>,
              <<"Qoraqalpog'iston Respublikasi", "Nukus">>}

DescNeutral == "Yaxshi uy"
DescBest == "Modern, AC, WiFi, pool, gym, balkon"
DescWorst == "Fixer, loud, small, old, kir, broken"
Descriptions == {DescNeutral, DescBest, DescWorst}

\* <<buildingType, condition, yearBuilt, floor, totalFloors>>
BuildingBest == <<"penthouse", "new", 2024, 4, 5>>
BuildingMid == <<"studio", "good", 1980, 1, 12>>
BuildingWorst == <<"studio", "needs_renovation", 1950, 1, 16>>

\* <<building, rooms, description>>: the sub-scores at their extremes and between
QualityProfiles == {<<BuildingBest, 2, DescBest>>, <<BuildingBest, 13, DescWorst>>,
                    <<BuildingMid, 9, DescNeutral>>, <<BuildingWorst, 2, DescBest>>,
                    <<BuildingWorst, 13, DescWorst>>}

\* price / expected price, in percent: one level in every price band of either variant
RatioLevels == {60, 70, 82, 92, 97, 107, 120, 140, 180, 500}

\* the price that is pct percent of the expected price for the city and size
PriceAt(city, propertyType, size, pct) ==
  (pct * getExpectedPricePerSqm(city, propertyType) * size) \div 1000

ProfileListing(propertyType, loc, pct, b, rooms, description) ==
  Listing(propertyType, PriceAt(loc[1], propertyType, 100, pct), 100, loc[1], loc[2],
          rooms, b[4], b[5], b[1], b[2], b[3], description)

\* every price band and location tier with every quality profile
ProfileListings ==
  {ProfileListing(pt, loc, pct, q[1], q[2], q[3]) :
     pt \in PropertyTypes, loc \in Locations, pct \in RatioLevels, q \in QualityProfiles}

\* every city of the form, three price levels
CityListings ==
  {ProfileListing(pt, <<c, "Markaz">>, pct, BuildingMid, 9, DescNeutral) :
     pt \in PropertyTypes, c \in Cities, pct \in {60, 100, 500}}

BaseListing ==
  Listing("sale", 112800, 100, "Toshkent Shahri", "Chilonzor", 3, 4, 9,
          "apartment", "good", 2015, DescNeutral)

\* BaseListing with one field left out, zero, empty or out of range
InvalidListings ==
  {[BaseListing EXCEPT !.absent = {f}] : f \in RequiredFields}
  \cup {[BaseListing EXCEPT ![f] = 0] : f \in NumericFields}
  \cup {[BaseListing EXCEPT ![f] = -3] : f \in NumericFields}
  \cup {[BaseListing EXCEPT ![f] = ""] : f \in StringFields}
  \cup {[BaseListing EXCEPT !.yearBuilt = y] : y \in {1850, 1900}}

\* BaseListing with a number where the scorer expects a string
NonStringListings ==
  {[BaseListing EXCEPT !.nonString = {f}] : f \in LowerCasedFields}

Parsed(data) == [parses |-> TRUE, data |-> data]
Malformed == [parses |-> FALSE, data |-> BaseListing]

InitWith(bodies, again) ==
  /\ variant \in Variants
  /\ body \in bodies
  /\ resubmits \in again
  /\ pc = "received"
  /\ status = 0
  /\ response = NoResponse
  /\ scorerCalls = 0
  /\ prev = [status |-> 0, response |-> NoResponse]
  /\ call = NoCall
  /\ RestIdle

\* the requests that end in an error response, submitted up to 1 + MaxResubmits times
InitRejected ==
  InitWith({Parsed(d) : d \in InvalidListings \cup NonStringListings} \cup {Malformed},
           0..MaxResubmits)

\* BaseListing with an enum field that is none of the declared values
UnrecognizedListings ==
  {[BaseListing EXCEPT !.propertyType = "lease"],
   [BaseListing EXCEPT !.buildingType = "castle"],
   [BaseListing EXCEPT !.condition = "ruined"]}

Init ==
  \/ InitWith({Parsed(d) : d \in ProfileListings \cup CityListings \cup UnrecognizedListings},
              {0})
  \/ InitRejected

Spec == Init /\ [][Next]_vars

\* <<floor, totalFloors>>
FloorChoices == {<<1, 16>>, <<4, 5>>, <<9, 12>>}
\* <<size, rooms>>
SizeChoices == {<<100, 2>>, <<40, 6>>}

\* sale listings of Toshkent Shahri, Chilonzor at 1128 per m2, the remaining
\* fields ranging over every enum value and the extremes of every band chain
ChilonzorListings ==
  {Listing("sale", 1128 * sr[1], sr[1], "Toshkent Shahri", "Chilonzor", sr[2],
           fl[1], fl[2], bt, cond, y, d) :
     sr \in SizeChoices, fl \in FloorChoices, bt \in BuildingTypes,
     cond \in Conditions, y \in {2024, 1995, 1950}, d \in {DescBest, DescWorst}}

InitChilonzor ==
  \/ InitWith({Parsed(d) : d \in ChilonzorListings}, {0})
  \/ InitRejected

SpecChilonzor == InitChilonzor /\ [][Next]_vars

\* listings that are submitted again
ResubmitListings ==
  {ProfileListing(pt, loc, pct, <<"studio", "good", 2015, 9, 12>>, 5, DescNeutral) :
     pt \in PropertyTypes, pct \in {97, 500},
     loc \in {<<"Toshkent Shahri", "Chilonzor">>, <<"Xorazm Viloyati", "Urganch">>}}

InitResubmit ==
  \/ InitWith({Parsed(d) : d \in ResubmitListings}, 1..MaxResubmits)
  \/ InitRejected

SpecResubmit == InitResubmit /\ [][Next]_vars

-----------------------------------------------------------------------------
(* The size-efficiency functions on their own: call holds the arguments    *)
(* and, once the function has returned, its name and result.               *)

CallSizeExtended ==
  /\ call.fn = "none"
  /\ call' = [call EXCEPT !.fn = "calculateSizeEfficiencyScore",
                          !.result = calculateSizeEfficiencyScore(call.size, call.rooms)]
  /\ UNCHANGED <<variant, body, pc, status, response, scorerCalls, resubmits, prev>>
  /\ UNCHANGED restVars

CallSizeSimple ==
  /\ call.fn = "none"
  /\ call' = [call EXCEPT !.fn = "getSizeEfficiency",
                          !.result = getSizeEfficiency(call.size, call.rooms)]
  /\ UNCHANGED <<variant, body, pc, status, response, scorerCalls, resubmits, prev>>
  /\ UNCHANGED restVars

NextSize == CallSizeExtended \/ CallSizeSimple

InitSize ==
  /\ call \in [fn : {"none"}, size : 0..MaxSize, rooms : 0..MaxRooms, result : {0}]
  /\ variant = "extended"
  /\ body = Malformed
  /\ resubmits = 0
  /\ pc = "idle"
  /\ status = 0
  /\ response = NoResponse
  /\ scorerCalls = 0
  /\ prev = [status |-> 0, response |-> NoResponse]
  /\ RestIdle

SpecSize == InitSize /\ [][NextSize]_vars

-----------------------------------------------------------------------------
(* The lookup functions on their own: call holds the arguments, the name   *)
(* of the function called and the results of its successive calls.         *)

\* spellings the tables know that the form does not offer, and mixed strings
ExtraCities == {"Khorezm", "Bukhara", "Karakalpakstan", "JIZZAX VILOYATI",
                "Chirchiq, Toshkent viloyati"}
LookupCities == Cities \cup ExtraCities
LookupDistricts == {"Chilonzor", "Sergeli", "Registon", "Markaz"}

\* fn may be called (again) on the arguments held in call
MayCall(fn) == call.fn \in {"none", fn} /\ Len(call.results) <= MaxResubmits

\* call after fn has returned result
Returned(fn, result) == [call EXCEPT !.fn = fn, !.results = Append(@, result)]

CallLocationScore ==
  /\ MayCall("getLocationScore")
  /\ call' = Returned("getLocationScore", getLocationScore(call.city, call.district))
  /\ UNCHANGED <<variant, body, pc, status, response, scorerCalls, resubmits, prev>>
  /\ UNCHANGED restVars

CallLocationScoreSimple ==
  /\ MayCall("getLocationScoreSimple")
  /\ call' = Returned("getLocationScoreSimple", getLocationScoreSimple(call.city, call.district))
  /\ UNCHANGED <<variant, body, pc, status, response, scorerCalls, resubmits, prev>>
  /\ UNCHANGED restVars

CallExpectedPrice ==
  /\ MayCall("getExpectedPricePerSqm")
  /\ call' = Returned("getExpectedPricePerSqm", getExpectedPricePerSqm(call.city, call.propertyType))
  /\ UNCHANGED <<variant, body, pc, status, response, scorerCalls, resubmits, prev>>
  /\ UNCHANGED restVars

CallExpectedPriceSimple ==
  /\ MayCall("getExpectedPricePerSqmSimple")
  /\ call' = Returned("getExpectedPricePerSqmSimple", getExpectedPricePerSqmSimple(call.city, call.propertyType))
  /\ UNCHANGED <<variant, body, pc, status, response, scorerCalls, resubmits, prev>>
  /\ UNCHANGED restVars

CallGrowth ==
  /\ MayCall("getRegionalGrowthFactor")
  /\ call' = Returned("getRegionalGrowthFactor", getRegionalGrowthFactor(call.city))
  /\ UNCHANGED <<variant, body, pc, status, response, scorerCalls, resubmits, prev>>
  /\ UNCHANGED restVars

CallGrowthSimple ==
  /\ MayCall("getRegionalGrowthFactorSimple")
  /\ call' = Returned("getRegionalGrowthFactorSimple", getRegionalGrowthFactorSimple(call.city))
  /\ UNCHANGED <<variant, body, pc, status, response, scorerCalls, resubmits, prev>>
  /\ UNCHANGED restVars

CallVolatility ==
  /\ MayCall("getMarketVolatilityFactor")
  /\ call' = Returned("getMarketVolatilityFactor", getMarketVolatilityFactor(call.city, call.propertyType))
  /\ UNCHANGED <<variant, body, pc, status, response, scorerCalls, resubmits, prev>>
  /\ UNCHANGED restVars

NextLookup ==
  \/ CallLocationScore
  \/ CallLocationScoreSimple
  \/ CallExpectedPrice
  \/ CallExpectedPriceSimple
  \/ CallGrowth
  \/ CallGrowthSimple
  \/ CallVolatility

InitLookup ==
  /\ call \in [fn : {"none"}, city : LookupCities, district : LookupDistricts,
                propertyType : PropertyTypes, results : {<<>>}]
  /\ variant = "extended"
  /\ body = Malformed
  /\ resubmits = 0
  /\ pc = "idle"
  /\ status = 0
  /\ response = NoResponse
  /\ scorerCalls = 0
  /\ prev = [status |-> 0, response |-> NoResponse]
  /\ RestIdle

SpecLookup == InitLookup /\ [][NextLookup]_vars

-----------------------------------------------------------------------------
(* Several requests in flight.  Every invocation of POST has its own `data` *)
(* and the module keeps no variable between invocations; the invocations   *)
(* interleave where the handler awaits the delay.                          *)

MaxRequests == 2

RequestIds == 1..MaxRequests

ConcurrentBodies ==
  {Parsed(ProfileListing("rent", <<"Toshkent Shahri", "Chilonzor">>, 97, BuildingBest, 2, DescBest)),
   Parsed(ProfileListing("sale", <<"Xorazm Viloyati", "Urganch">>, 500, BuildingWorst, 13, DescWorst)),
   Parsed([BaseListing EXCEPT !.absent = {"district"}]),
   Parsed([BaseListing EXCEPT !.floor = 0]),
   Parsed([BaseListing EXCEPT !.nonString = {"city"}]),
   Malformed}

\* mutant of DataOf: `data` kept in one module-level variable that the latest
\* request overwrites
DataOfLatest(i) == requests[Len(requests)].body.data

\* const data = await request.json(), local to the invocation serving request i
DataOf(i) == requests[i].body.data

\* return NextResponse.json(..., { status })
Responded(r, st, resp) == [r EXCEPT !.pc = "done", !.status = st, !.response = resp]

\* POST from its start to the first await after the validation
Arrive(i) ==
  /\ requests[i].pc = "received"
  /\ requests' =
       [requests EXCEPT ![i] =
          IF ~@.body.parses THEN Responded(@, 500, InternalError)
          ELSE IF MissingField(DataOf(i)) THEN Responded(@, 400, MissingFieldError)
          ELSE IF NonPositive(DataOf(i)) THEN Responded(@, 400, NonPositiveError)
          ELSE [@ EXCEPT !.pc = "delay"]]
  /\ UNCHANGED <<variant, body, pc, status, response, scorerCalls, resubmits, prev, call>>
  /\ UNCHANGED <<client, localStorage, now>>

\* the result of analyzeApartment(data) for request i; hi says whether the
\* draws of Math.random() are at the top or at the bottom of their range
Analyzed(i, hi) ==
  IF Throws(DataOf(i)) THEN <<500, InternalError>>
  ELSE IF variant = "extended"
       THEN <<200, analyzeApartment(DataOf(i),
                                    [j \in 1..4 |-> IF hi THEN CountRes - 1 ELSE 0])>>
       ELSE <<200, analyzeApartmentSimple(DataOf(i), IF hi THEN RandRes - 1 ELSE 0, 0)>>

\* the timer of request i fired: POST from the delay to its return.
\* `overlapped` records whether another request was waiting at the delay
Resume(i) ==
  /\ requests[i].pc = "delay"
  /\ \E hi \in BOOLEAN :
       LET outcome == Analyzed(i, hi)
       IN requests' =
            [requests EXCEPT ![i] =
               [Responded(@, outcome[1], outcome[2])
                  EXCEPT !.overlapped = \E j \in RequestIds \ {i} : requests[j].pc = "delay"]]
  /\ UNCHANGED <<variant, body, pc, status, response, scorerCalls, resubmits, prev, call>>
  /\ UNCHANGED <<client, localStorage, now>>

NextConcurrent ==
  \/ \E i \in RequestIds : Arrive(i)
  \/ \E i \in RequestIds : Resume(i)

InitConcurrent ==
  /\ variant \in Variants
  /\ requests \in [RequestIds -> [body : ConcurrentBodies, pc : {"received"}, status : {0},
                                  response : {NoResponse}, overlapped : {FALSE}]]
  /\ body = Malformed
  /\ resubmits = 0
  /\ pc = "idle"
  /\ status = 0
  /\ response = NoResponse
  /\ scorerCalls = 0
  /\ prev = [status |-> 0, response |-> NoResponse]
  /\ call = NoCall
  /\ client = [page |-> "closed"]
  /\ localStorage = <<>>
  /\ now = 0

SpecConcurrent == InitConcurrent /\ [][NextConcurrent]_vars

-----------------------------------------------------------------------------
(* The page (src/app/page.tsx): the saved properties, kept in React state  *)
(* and under the key 'savedProperties' of localStorage.  A stored value is *)
(* the list's JSON text; the model keeps the brackets of the text as a     *)
(* sequence of records and the text of every number and string as JSON     *)
(* writes it.                                                              *)

\* [...savedProperties, newSaved].slice(-10)
SavedCap == 10

Digits == "0123456789"
DigitChar(d) == CharAt(Digits, d + 1)
DigitValue(c) == CHOOSE d \in 0..9 : DigitChar(d) = c

RECURSIVE NatToString(_)
NatToString(n) ==
  IF n < 10 THEN DigitChar(n) ELSE NatToString(n \div 10) \o DigitChar(n % 10)

RECURSIVE ParseNat(_)
ParseNat(s) ==
  IF Len(s) = 0 THEN 0
  ELSE ParseNat(SubSeq(s, 1, Len(s) - 1)) * 10 + DigitValue(CharAt(s, Len(s)))

\* Number.prototype.toString() and JSON.stringify of an integer
NumberToString(n) == IF n < 0 THEN "-" \o NatToString(-n) ELSE NatToString(n)

\* JSON.parse of an integer literal
ParseInteger(s) ==
  IF CharAt(s, 1) = "-" THEN -ParseNat(SubSeq(s, 2, Len(s))) ELSE ParseNat(s)

RECURSIVE StripTrailingZeros(_)
StripTrailingZeros(s) ==
  IF Len(s) > 0 /\ CharAt(s, Len(s)) = "0"
  THEN StripTrailingZeros(SubSeq(s, 1, Len(s) - 1))
  ELSE s

\* JSON.stringify of the number v / 1000, v >= 0: 6200 -> 6.2, 10000 -> 10
DecimalToJson(v) ==
  LET whole == NatToString(v \div 1000)
      f == v % 1000
      padded == DigitChar(f \div 100) \o DigitChar((f \div 10) % 10) \o DigitChar(f % 10)
      fraction == StripTrailingZeros(padded)
  IN IF fraction = "" THEN whole ELSE whole \o "." \o fraction

\* JSON.parse of a decimal literal, in thousandths
ParseDecimal(s) ==
  LET dots == {i \in 1..Len(s) : CharAt(s, i) = "."}
  IN IF dots = {} THEN ParseNat(s) * 1000
     ELSE LET dot == CHOOSE i \in dots : TRUE
              fraction == SubSeq(s \o "000", dot + 1, dot + 3)
          IN ParseNat(SubSeq(s, 1, dot - 1)) * 1000 + ParseNat(fraction)

\* JSON.stringify of the characters of a string
RECURSIVE Escape(_)
Escape(s) ==
  IF Len(s) = 0 THEN ""
  ELSE LET c == CharAt(s, 1)
           out == IF c = "\"" THEN "\\\""
                  ELSE IF c = "\\" THEN "\\\\"
                  ELSE IF c = "\n" THEN "\\n"
                  ELSE c
       IN out \o Escape(SubSeq(s, 2, Len(s)))

RECURSIVE Unescape(_)
Unescape(s) ==
  IF Len(s) = 0 THEN ""
  ELSE IF CharAt(s, 1) = "\\"
       THEN (IF CharAt(s, 2) = "n" THEN "\n" ELSE CharAt(s, 2))
              \o Unescape(SubSeq(s, 3, Len(s)))
       ELSE CharAt(s, 1) \o Unescape(SubSeq(s, 2, Len(s)))

\* mutant of StringToJson: the characters are written as they are
StringToJsonRaw(s) == "\"" \o s \o "\""

\* JSON.stringify of a string
StringToJson(s) == "\"" \o Escape(s) \o "\""

\* the first unescaped quote in s at or after position i
RECURSIVE ClosingQuote(_, _)
ClosingQuote(s, i) ==
  IF i > Len(s) THEN i
  ELSE IF CharAt(s, i) = "\\" THEN ClosingQuote(s, i + 2)
  ELSE IF CharAt(s, i) = "\"" THEN i
  ELSE ClosingQuote(s, i + 1)

\* JSON.parse of a string literal: the characters up to the closing quote
ParseString(s) == Unescape(SubSeq(s, 2, ClosingQuote(s, 2) - 1))

AnalysisToJson(a) ==
  [score |-> DecimalToJson(a.score), label |-> StringToJson(a.label),
   explanation |-> StringToJson(a.explanation)]

ParseAnalysis(t) ==
  [score |-> ParseDecimal(t.score), label |-> ParseString(t.label),
   explanation |-> ParseString(t.explanation)]

\* JSON.stringify of a SavedProperty, member by member
EntryToJson(e) ==
  [f \in DOMAIN e |->
     IF f = "analysis" THEN AnalysisToJson(e[f])
     ELSE IF f \in NumericFields \cup {"timestamp"} THEN NumberToString(e[f])
     ELSE StringToJson(e[f])]

ParseEntry(t) ==
  [f \in DOMAIN t |->
     IF f = "analysis" THEN ParseAnalysis(t[f])
     ELSE IF f \in NumericFields \cup {"timestamp"} THEN ParseInteger(t[f])
     ELSE ParseString(t[f])]

\* JSON.stringify(updated)
JsonStringify(list) == [i \in 1..Len(list) |-> EntryToJson(list[i])]

\* JSON.parse(saved)
JsonParse(text) == [i \in 1..Len(text) |-> ParseEntry(text[i])]

\* useState<ApartmentData>({ propertyType: 'rent', price: 0, ... })
InitialFormData ==
  [propertyType |-> "rent", price |-> 0, size |-> 0, city |-> "", district |-> "",
   exactLocation |-> "", rooms |-> 0, floor |-> 0, totalFloors |-> 0,
   buildingType |-> "apartment", condition |-> "good", yearBuilt |-> 0,
   description |-> ""]

\* the ApartmentData members of a listing
FormOf(listing) == [f \in RequiredFields |-> listing[f]]

\* two filled-in forms; the second has a description with a quote, an
\* apostrophe, a backslash and a line break
ClientForms ==
  {FormOf(BaseListing),
   FormOf([ProfileListing("rent", <<"Toshkent Shahri", "Chilonzor">>, 500, BuildingBest, 2, DescBest)
             EXCEPT !.description = "\"Evro\" ta'mir\\yangi\n2 xona"])}

\* the body of a 200 response as the page keeps it: the score and label the
\* extended route returns for the form, the explanation as text
AnalysisShown(form) ==
  LET data == [f \in RequiredFields \cup {"absent", "nonString"} |->
                 IF f \in RequiredFields THEN form[f] ELSE {}]
      analysis == analyzeApartment(data, [j \in 1..4 |-> 0])
  IN [score |-> analysis.score, label |-> analysis.label,
      explanation |-> "Narx \"" \o analysis.label \o "\" deb baholandi"]

\* the entry saved at clock value i in an earlier session
EarlierEntry(i) ==
  LET form == FormOf([BaseListing EXCEPT !.price = 112000 + i])
  IN [f \in RequiredFields \cup {"id", "analysis", "timestamp"} |->
        IF f = "id" THEN NumberToString(i)
        ELSE IF f = "analysis" THEN AnalysisShown(form)
        ELSE IF f = "timestamp" THEN i
        ELSE form[f]]

\* what earlier sessions left under 'savedProperties': nothing, an empty
\* list, a list one short of the cap or a full list
EarlierStorage ==
  {<<>>} \cup {<<JsonStringify([i \in 1..n |-> EarlierEntry(i)])>> : n \in {0, SavedCap - 1, SavedCap}}

\* a click can still be followed
ClockRuns == now < SavedCap + 1 + MaxClock

WhiteSpace == {" ", "\n", "\t", "\r"}

\* String.prototype.trim
RECURSIVE trim(_)
trim(s) ==
  IF Len(s) = 0 THEN s
  ELSE IF CharAt(s, 1) \in WhiteSpace THEN trim(SubSeq(s, 2, Len(s)))
  ELSE IF CharAt(s, Len(s)) \in WhiteSpace THEN trim(SubSeq(s, 1, Len(s) - 1))
  ELSE s

\* the keys validateStep puts in `errors` for a step
StepErrors(step, formData) ==
  CASE step = 1 -> {f \in {"propertyType"} : formData[f] = ""}
    [] step = 2 -> {f \in {"price", "size"} : formData[f] = 0 \/ formData[f] <= 0}
    [] step = 3 -> {f \in {"city", "district", "exactLocation"} : formData[f] = ""}
    [] step = 4 ->
         {f \in {"rooms", "floor", "totalFloors"} : formData[f] = 0 \/ formData[f] <= 0}
         \cup {f \in {"buildingType", "condition"} : formData[f] = ""}
         \cup {f \in {"yearBuilt"} :
                 \/ formData[f] = 0
                 \/ formData[f] < 1900
                 \/ formData[f] > CurrentYear}
    [] step = 5 ->
         {f \in {"description"} : formData[f] = "" \/ Len(trim(formData[f])) < 10}

\* validateStep(step): Object.keys(errors).length === 0
validateStep(step, formData) == StepErrors(step, formData) = {}

\* the inputs rendered at a step and the values typed or picked in them
StepFields(step) ==
  CASE step = 1 -> {"propertyType"}
    [] step = 2 -> {"price", "size"}
    [] step = 3 -> {"city", "district", "exactLocation"}
    [] step = 4 -> {"rooms", "floor", "totalFloors", "buildingType", "condition", "yearBuilt"}
    [] step = 5 -> {"description"}

FieldValues(field) ==
  CASE field = "propertyType" -> {"rent"}
    [] field = "price" -> {0, 112800}
    [] field = "size" -> {100}
    [] field = "city" -> {"Toshkent Shahri"}
    [] field = "district" -> {"Chilonzor"}
    [] field = "exactLocation" -> {"Bunyodkor 12"}
    [] field = "rooms" -> {3}
    [] field = "floor" -> {4}
    [] field = "totalFloors" -> {9}
    [] field = "buildingType" -> {"apartment"}
    [] field = "condition" -> {"good"}
    [] field = "yearBuilt" -> {1900, 2015}
    [] field = "description" -> {"Yaxshi uy", DescBest}

\* the fields of a form as POST reads them from the JSON body
PayloadData(payload) ==
  [f \in RequiredFields \cup {"absent", "nonString"} |->
     IF f \in RequiredFields THEN payload[f] ELSE {}]

\* the response of POST /api/analyze to a body sent by the page
Answer(payload) ==
  IF MissingField(PayloadData(payload)) THEN [status |-> 400, body |-> MissingFieldError]
  ELSE IF NonPositive(PayloadData(payload)) THEN [status |-> 400, body |-> NonPositiveError]
  ELSE [status |-> 200, body |-> AnalysisShown(payload)]

\* mutant of Finally: setIsSubmitting(false) is left out
FinallyKeepsSubmitting(c) == [c EXCEPT !.loading = FALSE, !.request = <<>>]

\* the finally block of handleSubmit, which ends the invocation
Finally(c) == [c EXCEPT !.loading = FALSE, !.isSubmitting = FALSE, !.request = <<>>]

\* mutant of IndicatorAllows: the step indicator also jumps forward
IndicatorAllowsAny(currentStep, step) == currentStep # step

\* the onClick of a step indicator
IndicatorAllows(currentStep, step) == currentStep > step

\* the React state after the first render: the useState initial values and
\* the list the mount effect reads from the storage
Mounted(storage) ==
  [page |-> "open",
   savedProperties |-> IF storage # <<>> THEN JsonParse(storage[1]) ELSE <<>>,
   formData |-> InitialFormData,
   result |-> <<>>,
   currentStep |-> 1,
   loading |-> FALSE,
   isSubmitting |-> FALSE,
   error |-> <<>>,
   request |-> <<>>]

\* the form is rendered: the page is open and shows no result
FormShown == client.page = "open" /\ client.result = <<>>

\* the page is opened
Mount ==
  /\ client.page = "closed"
  /\ client' = Mounted(localStorage)
  /\ UNCHANGED <<localStorage, now>>
  /\ UNCHANGED <<variant, body, pc, status, response, scorerCalls, resubmits, prev, call, requests>>

\* the tab is closed or reloaded: the React state is gone, the storage stays
Unmount ==
  /\ client.page = "open"
  /\ client' = [page |-> "closed"]
  /\ UNCHANGED <<localStorage, now>>
  /\ UNCHANGED <<variant, body, pc, status, response, scorerCalls, resubmits, prev, call, requests>>

\* the user fills in the five steps of the form one after the other:
\* handleInputChange for every field and nextStep up to step 5
FillForm ==
  /\ FormShown
  /\ \E form \in ClientForms : client' = [client EXCEPT !.formData = form, !.currentStep = 5]
  /\ UNCHANGED <<localStorage, now>>
  /\ UNCHANGED <<variant, body, pc, status, response, scorerCalls, resubmits, prev, call, requests>>

\* handleInputChange(field, value) from an input of the step shown
HandleInputChange ==
  /\ FormShown
  /\ \E field \in StepFields(client.currentStep) : \E value \in FieldValues(field) :
       /\ client.formData[field] # value
       /\ client' = [client EXCEPT !.formData[field] = value]
  /\ UNCHANGED <<localStorage, now>>
  /\ UNCHANGED <<variant, body, pc, status, response, scorerCalls, resubmits, prev, call, requests>>

\* nextStep, the button shown at steps 1 to 4
NextStep ==
  /\ FormShown
  /\ client.currentStep < 5
  /\ validateStep(client.currentStep, client.formData)
  /\ client' = [client EXCEPT !.currentStep = client.currentStep + 1]
  /\ UNCHANGED <<localStorage, now>>
  /\ UNCHANGED <<variant, body, pc, status, response, scorerCalls, resubmits, prev, call, requests>>

\* prevStep
PrevStep ==
  /\ FormShown
  /\ client.currentStep > 1
  /\ client' = [client EXCEPT !.currentStep = client.currentStep - 1]
  /\ UNCHANGED <<localStorage, now>>
  /\ UNCHANGED <<variant, body, pc, status, response, scorerCalls, resubmits, prev, call, requests>>

\* a click on a step indicator
StepIndicator ==
  /\ FormShown
  /\ \E step \in 1..5 :
       /\ IndicatorAllows(client.currentStep, step)
       /\ client' = [client EXCEPT !.currentStep = step]
  /\ UNCHANGED <<localStorage, now>>
  /\ UNCHANGED <<variant, body, pc, status, response, scorerCalls, resubmits, prev, call, requests>>

\* handleSubmit up to its first await, from the submit button of step 5,
\* disabled while loading or isSubmitting; the invocation keeps the formData
\* of the render it was created in
HandleSubmit ==
  /\ FormShown
  /\ ClockRuns
  /\ client.currentStep = 5
  /\ ~client.loading /\ ~client.isSubmitting
  /\ validateStep(5, client.formData)
  /\ client' = [client EXCEPT !.isSubmitting = TRUE,
                              !.loading = TRUE,
                              !.error = <<>>,
                              !.result = <<>>,
                              !.request = <<[sent |-> FALSE, payload |-> client.formData]>>]
  /\ now' = now + 1
  /\ UNCHANGED localStorage
  /\ UNCHANGED <<variant, body, pc, status, response, scorerCalls, resubmits, prev, call, requests>>

\* the five loading steps have elapsed: fetch('/api/analyze', ...) is called
SendRequest ==
  /\ client.page = "open"
  /\ client.request # <<>>
  /\ ~client.request[1].sent
  /\ client' = [client EXCEPT !.request[1].sent = TRUE]
  /\ UNCHANGED <<localStorage, now>>
  /\ UNCHANGED <<variant, body, pc, status, response, scorerCalls, resubmits, prev, call, requests>>

\* the response arrives: setResult(data) for a 200, the catch for any other
\* status, then the finally block
ResponseArrives ==
  /\ client.page = "open"
  /\ client.request # <<>>
  /\ client.request[1].sent
  /\ LET answer == Answer(client.request[1].payload)
     IN client' = IF answer.status = 200
                  THEN Finally([client EXCEPT !.result = <<answer.body>>])
                  ELSE Finally([client EXCEPT !.error = <<answer.body.error>>])
  /\ UNCHANGED <<localStorage, now>>
  /\ UNCHANGED <<variant, body, pc, status, response, scorerCalls, resubmits, prev, call, requests>>

\* fetch rejects (no connection): the catch, then the finally block
FetchThrows ==
  /\ client.page = "open"
  /\ client.request # <<>>
  /\ client.request[1].sent
  /\ client' = Finally([client EXCEPT !.error = <<"Failed to fetch">>])
  /\ UNCHANGED <<localStorage, now>>
  /\ UNCHANGED <<variant, body, pc, status, response, scorerCalls, resubmits, prev, call, requests>>

\* the button next to a result: setResult(null), setCurrentStep(1),
\* setError(null)
ResetResult ==
  /\ client.page = "open"
  /\ client.result # <<>>
  /\ client' = [client EXCEPT !.result = <<>>, !.currentStep = 1, !.error = <<>>]
  /\ UNCHANGED <<localStorage, now>>
  /\ UNCHANGED <<variant, body, pc, status, response, scorerCalls, resubmits, prev, call, requests>>

\* "Ko'rish" on a saved property: setFormData(property), setResult(property.analysis)
ViewSaved ==
  /\ client.page = "open"
  /\ ClockRuns
  /\ \E i \in DOMAIN client.savedProperties :
       client' = [client EXCEPT !.formData = client.savedProperties[i],
                                !.result = <<client.savedProperties[i].analysis>>]
  /\ now' = now + 1
  /\ UNCHANGED localStorage
  /\ UNCHANGED <<variant, body, pc, status, response, scorerCalls, resubmits, prev, call, requests>>

\* mutant of LastTen: the cap typed as slice(-11)
LastEleven(list) == SubSeq(list, Max(1, Len(list) - SavedCap), Len(list))

\* list.slice(-10)
LastTen(list) == SubSeq(list, Max(1, Len(list) - SavedCap + 1), Len(list))

\* saveProperty; the two calls of Date.now() may fall in different milliseconds
SaveProperty ==
  /\ client.page = "open"
  /\ ClockRuns
  /\ client.result # <<>>
  /\ \E later \in {now, now + 1} :
       LET newSaved ==
             [f \in DOMAIN client.formData \cup {"id", "analysis", "timestamp"} |->
                IF f = "id" THEN NumberToString(now)
                ELSE IF f = "analysis" THEN client.result[1]
                ELSE IF f = "timestamp" THEN later
                ELSE client.formData[f]]
           updated == LastTen(Append(client.savedProperties, newSaved))
       IN /\ client' = [client EXCEPT !.savedProperties = updated]
          /\ localStorage' = <<JsonStringify(updated)>>
  /\ now' = now + 1
  /\ UNCHANGED <<variant, body, pc, status, response, scorerCalls, resubmits, prev, call, requests>>

\* deleteSavedProperty(id), id the id of a listed property
DeleteSavedProperty ==
  /\ client.page = "open"
  /\ ClockRuns
  /\ \E i \in DOMAIN client.savedProperties :
       LET id == client.savedProperties[i].id
           updated == SelectSeq(client.savedProperties, LAMBDA p : p.id # id)
       IN /\ client' = [client EXCEPT !.savedProperties = updated]
          /\ localStorage' = <<JsonStringify(updated)>>
  /\ now' = now + 1
  /\ UNCHANGED <<variant, body, pc, status, response, scorerCalls, resubmits, prev, call, requests>>

NextClient ==
  \/ Mount
  \/ Unmount
  \/ FillForm
  \/ HandleSubmit
  \/ SendRequest
  \/ ResponseArrives
  \/ FetchThrows
  \/ ResetResult
  \/ ViewSaved
  \/ SaveProperty
  \/ DeleteSavedProperty

InitClient ==
  /\ client = [page |-> "closed"]
  /\ localStorage \in EarlierStorage
  /\ now = SavedCap + 1
  /\ requests = <<>>
  /\ variant = "extended"
  /\ body = Malformed
  /\ resubmits = 0
  /\ pc = "idle"
  /\ status = 0
  /\ response = NoResponse
  /\ scorerCalls = 0
  /\ prev = [status |-> 0, response |-> NoResponse]
  /\ call = NoCall

SpecClient == InitClient /\ [][NextClient]_vars

-----------------------------------------------------------------------------
(* The form of the page, field by field and step by step, from the first   *)
(* render with an empty form: every edit, every navigation between the     *)
(* steps and every stage of handleSubmit is a step of its own.             *)

\* a property saved in an earlier session after its price was cleared while
\* the request was in flight
EditedEntry == [EarlierEntry(2) EXCEPT !.price = 0]

\* what earlier sessions left for this one: nothing, or two saved properties
FormStorage == {<<>>, <<JsonStringify(<<EarlierEntry(1), EditedEntry>>)>>}

NextForm ==
  \/ HandleInputChange
  \/ NextStep
  \/ PrevStep
  \/ StepIndicator
  \/ HandleSubmit
  \/ SendRequest
  \/ ResponseArrives
  \/ FetchThrows
  \/ ResetResult
  \/ ViewSaved
  \/ SaveProperty

InitForm ==
  /\ localStorage \in FormStorage
  /\ client = Mounted(localStorage)
  /\ now = SavedCap + 1
  /\ requests = <<>>
  /\ variant = "extended"
  /\ body = Malformed
  /\ resubmits = 0
  /\ pc = "idle"
  /\ status = 0
  /\ response = NoResponse
  /\ scorerCalls = 0
  /\ prev = [status |-> 0, response |-> NoResponse]
  /\ call = NoCall

SpecForm == InitForm /\ [][NextForm]_vars

\* the timers of the loading steps fire and the fetch promise settles
FairSpecForm ==
  /\ SpecForm
  /\ WF_vars(SendRequest)
  /\ WF_vars(FetchThrows \/ ResponseArrives)

-----------------------------------------------------------------------------
(* The scoring functions applied to related inputs: one listing at two     *)
(* prices, one description with and without a keyword appended, one        *)
(* listing under both variants.  call.data is the listing, call.results    *)
(* the arguments and values of the calls made so far.                      *)

\* every location tier and quality profile, at 97% of the expected price
CompareListings ==
  {ProfileListing(pt, loc, 97, q[1], q[2], q[3]) :
     pt \in PropertyTypes, loc \in Locations, q \in QualityProfiles}

\* price / expected price, in percent, on both sides of the band borders
ComparePriceLevels == {60, 97, 107, 111, 140, 500}

\* keywords of the positive amenity groups
AppendedKeywords == {"kir yuvish mashinasi", "supermarket", "konditsioner"}

\* description, or description followed by the keyword
WithKeyword(description, keyword) ==
  IF keyword = "" THEN description ELSE description \o ", " \o keyword

\* analyzeApartment(data) of the extended variant with data.price replaced
CallAnalyzeAtPrice ==
  /\ call.fn \in {"none", "analyzeApartment"}
  /\ Len(call.results) < 2
  /\ \E pct \in ComparePriceLevels, c \in 0..(CountRes - 1) :
       LET d == call.data
           price == PriceAt(d.city, d.propertyType, d.size, pct)
           result == analyzeApartment([d EXCEPT !.price = price], [j \in 1..4 |-> c])
       IN call' = Returned("analyzeApartment", [price |-> price, score |-> result.score])
  /\ UNCHANGED <<variant, body, pc, status, response, scorerCalls, resubmits, prev>>
  /\ UNCHANGED restVars

\* calculateAmenitiesScore(description), the description as it is or with a
\* keyword appended
CallAmenitiesScore ==
  /\ call.fn \in {"none", "calculateAmenitiesScore"}
  /\ Len(call.results) < 2
  /\ \E keyword \in AppendedKeywords \cup {""} :
       call' = Returned("calculateAmenitiesScore",
                        [keyword |-> keyword,
                         score |-> calculateAmenitiesScore(
                                     WithKeyword(call.data.description, keyword))])
  /\ UNCHANGED <<variant, body, pc, status, response, scorerCalls, resubmits, prev>>
  /\ UNCHANGED restVars

\* getAmenityScore(description) of the simple variant
CallAmenityScoreSimple ==
  /\ call.fn \in {"none", "getAmenityScore"}
  /\ Len(call.results) < 2
  /\ \E keyword \in AppendedKeywords \cup {""} :
       call' = Returned("getAmenityScore",
                        [keyword |-> keyword,
                         score |-> getAmenityScore(
                                     WithKeyword(call.data.description, keyword))])
  /\ UNCHANGED <<variant, body, pc, status, response, scorerCalls, resubmits, prev>>
  /\ UNCHANGED restVars

\* the four sub-scores the extended analyzeApartment computes for the listing
CallSubScores ==
  /\ call.fn \in {"none", "subScores"}
  /\ Len(call.results) < 2
  /\ LET d == call.data
     IN call' = Returned("subScores",
          [variant |-> "extended",
           location |-> getLocationScore(d.city, d.district),
           building |-> calculateBuildingQualityScore(d.buildingType, d.condition,
                          d.yearBuilt, d.floor, d.totalFloors),
           amenities |-> calculateAmenitiesScore(d.description),
           size |-> calculateSizeEfficiencyScore(d.size, d.rooms)])
  /\ UNCHANGED <<variant, body, pc, status, response, scorerCalls, resubmits, prev>>
  /\ UNCHANGED restVars

\* the four sub-scores the simple analyzeApartment computes for the listing
CallSubScoresSimple ==
  /\ call.fn \in {"none", "subScores"}
  /\ Len(call.results) < 2
  /\ LET d == call.data
     IN call' = Returned("subScores",
          [variant |-> "simple",
           location |-> getLocationScoreSimple(d.city, d.district),
           building |-> getBuildingScore(d.buildingType, d.condition,
                          d.yearBuilt, d.floor, d.totalFloors),
           amenities |-> getAmenityScore(d.description),
           size |-> getSizeEfficiency(d.size, d.rooms)])
  /\ UNCHANGED <<variant, body, pc, status, response, scorerCalls, resubmits, prev>>
  /\ UNCHANGED restVars

NextCompare ==
  \/ CallAnalyzeAtPrice
  \/ CallAmenitiesScore
  \/ CallAmenityScoreSimple
  \/ CallSubScores
  \/ CallSubScoresSimple

InitCompare ==
  /\ call \in [fn : {"none"}, data : CompareListings, results : {<<>>}]
  /\ variant = "extended"
  /\ body = Malformed
  /\ resubmits = 0
  /\ pc = "idle"
  /\ status = 0
  /\ response = NoResponse
  /\ scorerCalls = 0
  /\ prev = [status |-> 0, response |-> NoResponse]
  /\ RestIdle

SpecCompare == InitCompare /\ [][NextCompare]_vars

-----------------------------------------------------------------------------
(* Properties *)

Abs(x) == IF x < 0 THEN -x ELSE x

Answered == pc = "done" /\ status = 200

\* a request the validation is to reject: a required field missing, empty or
\* zero, a non-positive price, size, rooms, floor or totalFloors, or
\* yearBuilt <= 1900
ToBeRejected(data) ==
  \/ data.absent # {}
  \/ \E f \in NumericFields : data[f] = 0
  \/ \E f \in StringFields : data[f] = ""
  \/ \E f \in {"price", "size", "rooms", "floor", "totalFloors"} : data[f] <= 0
  \/ data.yearBuilt <= 1900

\* the price ratio of the request is exactly pct percent
RatioIs(data, pct) ==
  10 * data.price * 100
    = pct * data.size * getExpectedPricePerSqm(data.city, data.propertyType)

\* C1: every 200 response, of either variant, carries a final score that is at
\* least 1.0, at most 10.0 and a multiple of 0.1
C1_ScoreRange ==
  status = 200 =>
    /\ response.score >= 1000
    /\ response.score <= 10000
    /\ response.score % 100 = 0

\* a response whose score was clamped up to 1.0
C1_Witness ==
  /\ Answered
  /\ variant = "simple"
  /\ response.score = 1000
  /\ DeterministicSum(body.data) < 0

\* C2: the label is a function of the final score alone: >= 6.5 Underpriced,
\* >= 4.0 Fair, below 4.0 Overpriced, in both variants
C2_LabelByScore ==
  status = 200 =>
    response.label = IF response.score >= 6500 THEN "Underpriced"
                     ELSE IF response.score >= 4000 THEN "Fair"
                     ELSE "Overpriced"

\* a score of the >= 8.0 branch
C2_Witness ==
  /\ Answered
  /\ response.score >= 8000
  /\ response.label = "Underpriced"

\* C3: a request with a missing, empty, zero or non-positive required field, or
\* yearBuilt <= 1900, never reaches analyzeApartment and is answered 400 with
\* an error body
C3_InvalidRejected ==
  (body.parses /\ ToBeRejected(body.data)) =>
    /\ scorerCalls = 0
    /\ pc # "delay"
    /\ pc = "done" => (status = 400 /\ DOMAIN response = {"error"})

\* the request with price = 0 was answered
C3_Witness ==
  /\ body.parses
  /\ body.data.absent = {}
  /\ body.data.price = 0
  /\ pc = "done"
  /\ status = 400

\* C4: a request whose 13 fields are present and non-empty, with positive
\* price, size, rooms, floor and totalFloors and yearBuilt > 1900, is
\* answered 200 with score, label and explanation, never 400 or 500
C4_ValidAnswered ==
  (body.parses /\ ~ToBeRejected(body.data)) =>
    /\ status \in {0, 200}
    /\ pc = "done" =>
         /\ status = 200
         /\ {"score", "label", "explanation"} \subseteq DOMAIN response

\* C5: a listing priced at 5 times the expected baseline is labelled
\* Overpriced, whatever the other sub-scores
C5_FiveTimesOverpriced ==
  (Answered /\ RatioIs(body.data, 500)) => response.label = "Overpriced"

\* C9 as stated: the simple variant's final score is within 0.3 + 0.3 of the
\* deterministic weighted sum
C9_WithinJitterAndVolatility ==
  (Answered /\ variant = "simple") =>
    Abs(response.score - DeterministicSum(body.data)) <= 600

\* C9 amended: the volatility term is within 0.3; the final score is the sum
\* of the deterministic weighted sum, the volatility term and a jitter within
\* 0.3, rounded to one decimal (at most 0.05 more) and clamped to [1, 10]
C9_UpToRoundingAndClamp ==
  (Answered /\ variant = "simple") =>
    LET det == DeterministicSum(body.data)
        vol == getMarketVolatilityFactor(body.data.city, body.data.propertyType)
        score == response.score
    IN /\ Abs(vol) <= 300
       /\ (score > 1000 /\ score < 10000) => Abs(score - (det + vol)) <= 350
       /\ score = 1000 => det + vol - 300 < 1050
       /\ score = 10000 => det + vol + 300 >= 9950

\* an unclamped score with the volatility term and the jitter at their bounds
C9_Witness ==
  /\ Answered
  /\ variant = "simple"
  /\ response.score > 1000
  /\ response.score < 10000
  /\ getMarketVolatilityFactor(body.data.city, body.data.propertyType) = 300
  /\ response.score - DeterministicSum(body.data) = 0

\* the request is the sale listing of Toshkent Shahri, Chilonzor at 1128 per m2
ChilonzorBaseline(data) ==
  /\ data.propertyType = "sale"
  /\ data.city = "Toshkent Shahri"
  /\ data.district = "Chilonzor"
  /\ data.price = 1128 * data.size

\* C6: a sale listing of Toshkent Shahri, Chilonzor priced at the expected
\* 1128 per m2 is labelled Fair or Underpriced, never Overpriced, whatever
\* the remaining fields and the jitter
C6_ChilonzorNeverOverpriced ==
  (Answered /\ ChilonzorBaseline(body.data)) =>
    response.label \in {"Fair", "Underpriced"}

\* the worst building, size and description end at Fair
C6_Witness ==
  /\ Answered
  /\ ChilonzorBaseline(body.data)
  /\ body.data.description = DescWorst
  /\ body.data.condition = "needs_renovation"
  /\ response.label = "Fair"

\* the result without the listingsCount of the platform comparisons
WithoutListingsCount(r) ==
  [r EXCEPT !.factors.priceComparison.comparison =
     [i \in DOMAIN @ |-> [platform |-> @[i].platform,
                          averagePrice |-> @[i].averagePrice,
                          pricePosition |-> @[i].pricePosition]]]

\* both the previous and the present submission of the payload were scored
ScoredTwice == Answered /\ prev.status = 200

\* C7: two runs of the extended variant on the same listing return the same
\* result (score, label, explanation, factors, marketInsights, platform
\* comparison) except for the listingsCount values
C7_ExtendedDeterministic ==
  (ScoredTwice /\ variant = "extended") =>
    WithoutListingsCount(response) = WithoutListingsCount(prev.response)

\* two runs that differ in a listingsCount
C7_Witness ==
  /\ ScoredTwice
  /\ variant = "extended"
  /\ response # prev.response

\* C8: two runs of the simple variant on the same payload return final scores
\* at most 0.6 apart
C8_SimpleWithinSixTenths ==
  (ScoredTwice /\ variant = "simple") =>
    Abs(response.score - prev.response.score) <= 600

\* two runs exactly 0.6 apart
C8_Witness ==
  /\ ScoredTwice
  /\ variant = "simple"
  /\ Abs(response.score - prev.response.score) = 600

\* the function the call was made to
SizeFunction(size, rooms) ==
  IF call.fn = "getSizeEfficiency" THEN getSizeEfficiency(size, rooms)
  ELSE calculateSizeEfficiencyScore(size, rooms)

\* C10: the size-efficiency score is one of the steps 3..9, is 3 when rooms = 0,
\* never decreases when size / rooms grows, and is the same in both variants
C10_SizeEfficiencySteps ==
  call.fn # "none" =>
    /\ call.result \in {30, 40, 50, 60, 70, 80, 90}
    /\ call.rooms = 0 => call.result = 30
    /\ call.rooms > 0 =>
         \A size2 \in 0..MaxSize, rooms2 \in 1..MaxRooms :
           size2 * call.rooms >= call.size * rooms2
             => SizeFunction(size2, rooms2) >= call.result
    /\ calculateSizeEfficiencyScore(call.size, call.rooms)
         = getSizeEfficiency(call.size, call.rooms)

\* a call with rooms = 0 and a large size
C10_Witness ==
  /\ call.fn = "calculateSizeEfficiencyScore"
  /\ call.rooms = 0
  /\ call.size >= 25
  /\ call.result = 30

CityHas(key) == includes(toLowerCase(call.city), key)

\* C18: every entry of the city-keyed chains is the result for the city
\* strings that contain its key
C18_EveryEntryApplies ==
  /\ call.fn \in {"getRegionalGrowthFactor", "getRegionalGrowthFactorSimple"} =>
       \A i \in DOMAIN call.results :
         /\ CityHas("toshkent viloyati") => call.results[i] = 200
         /\ CityHas("jizzax viloyati") => call.results[i] = -300
         /\ CityHas("sirdaryo viloyati") => call.results[i] = -400
  /\ call.fn = "getMarketVolatilityFactor" =>
       \A i \in DOMAIN call.results :
         (CityHas("jizzax viloyati") \/ CityHas("sirdaryo viloyati"))
           => call.results[i] = IF call.propertyType = "rent" THEN -200 ELSE -300

\* C20: city strings in one tier of the expected-price lookup have one
\* location base score
C20_SameTiers ==
  call.fn = "getExpectedPricePerSqm" =>
    \A other \in LookupCities :
      getExpectedPricePerSqm(other, call.propertyType)
          = getExpectedPricePerSqm(call.city, call.propertyType)
        => LocationBase(toLowerCase(other)) = LocationBase(toLowerCase(call.city))


\* the request raises an exception inside the handler: request.json() rejects
\* the body, or the body passes both validations and analyzeApartment calls
\* toLowerCase() on a value that is not a string
RaisesException ==
  \/ ~body.parses
  \/ /\ ~MissingField(body.data)
     /\ ~NonPositive(body.data)
     /\ body.data.nonString \cap {"city", "district", "description"} # {}

\* C12: a malformed body, or any exception raised while the handler runs, is
\* answered with status 500 and an error body: once such a request is done
\* its status is 500 (never 200) and its body is the error object, and every
\* finished request has a status, so no exception escapes POST
C12_ExceptionsAnswered500 ==
  pc = "done" =>
    /\ status \in {200, 400, 500}
    /\ RaisesException =>
         status = 500 /\ DOMAIN response = {"error"} /\ response.error # ""

C12_Witness ==
  /\ pc = "done"
  /\ ~body.parses
  /\ status = 500
  /\ response = [error |-> "Mulkni tahlil qilishda xatolik yuz berdi"]


\* 5 + 0.45 (price - 5) + 0.30 (location - 5) + 0.15 (building - 5)
\*   + 0.08 (size - 5) + 0.02 (amenities - 5) + growth over the sub-scores a
\* response reports, thousandths
ReportedSum(factors, city) ==
  5000 + 45 * (factors.priceComparison.score - 50)
       + 30 * (factors.location.score - 50)
       + 15 * (factors.buildingQuality.score - 50)
       + 8 * (factors.sizeEfficiency.score - 50)
       + 2 * (factors.amenities.score - 50)
       + getRegionalGrowthFactor(city)

\* C16: the final score of the extended variant is the weighted sum
\* 5 + 0.45 (price - 5) + 0.30 (location - 5) + 0.15 (building - 5)
\* + 0.08 (size - 5) + 0.02 (amenities - 5) + growth of its five sub-scores,
\* with no jitter and no volatility term, rounded to one decimal and then
\* clamped to [1, 10]
C16_ExtendedWeightedSum ==
  (Answered /\ variant = "extended") =>
    response.score =
      Max(1000, Min(10000, ((ReportedSum(response.factors, body.data.city) + 50) \div 100) * 100))

\* an unclamped extended score whose size and amenities sub-scores differ
\* from each other and from the neutral 5
C16_Witness ==
  /\ Answered
  /\ variant = "extended"
  /\ response.score > 1000
  /\ response.score < 10000
  /\ response.factors.sizeEfficiency.score # 50
  /\ response.factors.amenities.score # 50
  /\ response.factors.sizeEfficiency.score # response.factors.amenities.score
  /\ getRegionalGrowthFactor(body.data.city) # 0


\* the simple variant's sum with the weights 0.30, 0.15, 0.08 and 0.02,
\* thousandths
StatedSum(data) ==
  LET expectedPricePerSqm == getExpectedPricePerSqmSimple(data.city, data.propertyType)
      priceRatio == PriceRatio(data.price, data.size, expectedPricePerSqm)
  IN 5000 + PriceBandContribution(priceRatio)
          + getMarketVolatilityFactor(data.city, data.propertyType)
          + 30 * (getLocationScoreSimple(data.city, data.district) - 50)
          + 15 * (getBuildingScore(data.buildingType, data.condition, data.yearBuilt,
                                   data.floor, data.totalFloors) - 50)
          + 8 * (getSizeEfficiency(data.size, data.rooms) - 50)
          + 2 * (getAmenityScore(data.description) - 50)
          + getRegionalGrowthFactorSimple(data.city)

\* C17: in the simple variant the location, building, size-efficiency and
\* amenity sub-scores contribute (subscore - 5) times 0.30, 0.15, 0.08 and
\* 0.02 to the final score: every 200 response carries the score that these
\* weights give for some jitter draw
C17_SimpleWeights ==
  (Answered /\ variant = "simple") =>
    \E k \in 0..(RandRes - 1) :
      response.score =
        ClampFinal(RoundOneDecimalFine(StatedSum(body.data) * RandRes + Jitter(k)))


\* C19: the location, building-quality and amenity sub-scores of both variants
\* lie in [1, 10] for every scored request, also where the unclamped sum
\* leaves the range
C19_SubScoresInRange ==
  Answered =>
    LET d == body.data
        scores ==
          IF variant = "extended"
          THEN {response.factors.location.score,
                response.factors.buildingQuality.score,
                response.factors.amenities.score}
          ELSE {getLocationScoreSimple(d.city, d.district),
                getBuildingScore(d.buildingType, d.condition, d.yearBuilt,
                                 d.floor, d.totalFloors),
                getAmenityScore(d.description)}
    IN \A score \in scores : score >= 10 /\ score <= 100

\* Toshkent Shahri with a premium district scores exactly 10, and a studio
\* needing renovation, older than 60 years, on floor 1 of a building of more
\* than 15 floors scores exactly 1
C19_Witness ==
  /\ Answered
  /\ variant = "extended"
  /\ body.data.city = "Toshkent Shahri"
  /\ body.data.district = "Chilonzor"
  /\ body.data.buildingType = "studio"
  /\ body.data.condition = "needs_renovation"
  /\ CurrentYear - body.data.yearBuilt > 60
  /\ body.data.floor = 1
  /\ body.data.totalFloors > 15
  /\ response.factors.location.score = 100
  /\ response.factors.buildingQuality.score = 10


\* st and resp are an outcome POST can give to body b on its own, for some
\* value of its random draws: the listingsCount draws of the extended
\* variant, the jitter and the explanation pick of the simple variant
OwnOutcome(v, b, st, resp) ==
  IF ~b.parses THEN st = 500 /\ resp = InternalError
  ELSE IF MissingField(b.data) THEN st = 400 /\ resp = MissingFieldError
  ELSE IF NonPositive(b.data) THEN st = 400 /\ resp = NonPositiveError
  ELSE IF b.data.nonString \cap LowerCasedFields # {} THEN st = 500 /\ resp = InternalError
  ELSE IF v = "extended"
       THEN LET d == b.data
                undrawn == analyzeApartment(d, [j \in 1..4 |-> 0])
            IN /\ st = 200
               /\ WithoutListingsCount(resp) = WithoutListingsCount(undrawn)
               /\ \A j \in 1..4 : \E c \in 0..(CountRes - 1) :
                    resp.factors.priceComparison.comparison[j].listingsCount =
                      getPlatformComparison(d.city, d.propertyType, d.price, d.size,
                                            [x \in 1..4 |-> c])[j].listingsCount
       ELSE LET d == b.data
                sum == DeterministicSum(d) + getMarketVolatilityFactor(d.city, d.propertyType)
            IN /\ st = 200
               /\ \E k \in 0..(RandRes - 1), pick \in 0..2 :
                    LET score == ClampFinal(RoundOneDecimalFine(sum * RandRes + Jitter(k)))
                    IN resp = [score |-> score, label |-> LabelOfSimple(score),
                               explanation |-> [template |-> LabelOfSimple(score),
                                                pick |-> pick]]

\* C13: with several requests in flight that interleave at the delay, the
\* status and response of each finished request are among the outcomes of its
\* own payload and its own draws, whatever the other requests carry and
\* whether they are waiting, finished or not yet started
C13_OwnPayloadOnly ==
  \A i \in DOMAIN requests :
    requests[i].pc = "done" =>
      OwnOutcome(variant, requests[i].body, requests[i].status, requests[i].response)

\* request 1 was answered 200 while request 2, with another payload, was
\* waiting at the delay, and request 2 was then answered 200 with another
\* response
C13_Witness ==
  /\ Len(requests) >= 2
  /\ requests[1].pc = "done" /\ requests[2].pc = "done"
  /\ requests[1].status = 200 /\ requests[2].status = 200
  /\ requests[1].overlapped
  /\ requests[1].body # requests[2].body
  /\ requests[1].response # requests[2].response


\* the saved properties the open page shows
Shown == IF client.page = "open" THEN client.savedProperties ELSE <<>>

\* a step of saveProperty on the open page: the list changes without
\* getting shorter
SaveStep ==
  /\ client.page = "open"
  /\ client'.page = "open"
  /\ client'.savedProperties # client.savedProperties
  /\ Len(client'.savedProperties) >= Len(client.savedProperties)

\* C14: the saved-properties list never has more than 10 entries, whatever
\* saves and deletes are made from a stored list of at most 10, and a save on
\* a full list drops the oldest entry and appends the new one, keeping the
\* order of the other nine
C14_CappedAtTen ==
  /\ [](Len(Shown) <= 10)
  /\ [][(SaveStep /\ Len(client.savedProperties) = 10) =>
          /\ Len(client'.savedProperties) = 10
          /\ SubSeq(client'.savedProperties, 1, 9) = SubSeq(client.savedProperties, 2, 10)
          /\ client'.savedProperties[10].id = NumberToString(now)
          /\ client'.savedProperties[10].analysis = client.result[1]]_vars

\* a save made on the full list of the earlier sessions: the entry saved
\* first is gone, the new entry is the tenth
C14_Witness ==
  /\ client.page = "open"
  /\ Len(client.savedProperties) = 10
  /\ {client.savedProperties[i].id : i \in 1..10} =
       {"2", "3", "4", "5", "6", "7", "8", "9", "10", "12"}
  /\ client.savedProperties[10].id = "12"

\* C15: what is persisted under 'savedProperties' is the in-memory list:
\* on the open page, after every save and delete and after loading on mount,
\* parsing the stored text gives the list in memory, entry by entry in the
\* same order with the same listing fields, id, timestamp and analysis; with
\* nothing stored the list is empty
C15_StoredVerbatim ==
  client.page = "open" =>
    IF localStorage = <<>> THEN client.savedProperties = <<>>
    ELSE JsonParse(localStorage[1]) = client.savedProperties

\* a property whose description holds a quote, a backslash and a line break
\* was saved in this session and the page was opened again afterwards
C15_Witness ==
  /\ client.page = "open"
  /\ client.formData = InitialFormData
  /\ localStorage # <<>>
  /\ \E i \in DOMAIN client.savedProperties :
       /\ client.savedProperties[i].id = "12"
       /\ client.savedProperties[i].description = "\"Evro\" ta'mir\\yangi\n2 xona"
       /\ client.savedProperties[i].analysis.score % 1000 # 0


\* C21: analyzeApartment runs only on requests whose propertyType is rent or
\* sale, whose buildingType is apartment, house, studio or penthouse and whose
\* condition is new, renovated, good or needs_renovation; any other request
\* is rejected before the scorer is called
C21_EnumsRecognized ==
  scorerCalls > 0 =>
    /\ body.data.propertyType \in {"rent", "sale"}
    /\ body.data.buildingType \in {"apartment", "house", "studio", "penthouse"}
    /\ body.data.condition \in {"new", "renovated", "good", "needs_renovation"}


\* C25: in the extended variant a listing labelled Underpriced, which the
\* explanation describes as priceDiff% below the market price, has a price
\* ratio below 1
C25_UnderpricedBelowMarket ==
  (Answered /\ variant = "extended" /\ response.label = "Underpriced") =>
    /\ response.explanation.direction = "past"
    /\ LET d == body.data
       IN 10 * d.price < d.size * getExpectedPricePerSqm(d.city, d.propertyType)


\* C28: in the extended variant, wherever marketInsights.marketTrend reports
\* a declining market ("Kamayib bormoqda"), the regional growth factor added
\* to the score is negative
C28_DecliningTrendNegativeGrowth ==
  (Answered /\ variant = "extended"
     /\ response.marketInsights.marketTrend = "Kamayib bormoqda") =>
    getRegionalGrowthFactor(body.data.city) < 0


\* the calls of function fn recorded in the state, in the order made
CallsOf(fn) == IF "data" \in DOMAIN call /\ call.fn = fn THEN call.results ELSE <<>>

\* C26: in the extended variant the final score is non-increasing in price:
\* of two scorings of one listing that differ only in price, the one at the
\* higher price does not have the higher final score
C26_ScoreNonIncreasingInPrice ==
  LET scored == CallsOf("analyzeApartment")
  IN \A i, j \in DOMAIN scored :
       scored[i].price < scored[j].price => scored[i].score >= scored[j].score

\* a listing scored at two prices, the dearer one strictly lower
C26_Witness ==
  LET scored == CallsOf("analyzeApartment")
  IN /\ Len(scored) = 2
     /\ scored[1].price < scored[2].price
     /\ scored[1].score > scored[2].score

\* C27: appending a keyword of a positive amenity group to a description
\* never lowers the amenity score, in either variant
C27_AmenityMonotone ==
  \A fn \in {"calculateAmenitiesScore", "getAmenityScore"} :
    LET scored == CallsOf(fn)
    IN \A i, j \in DOMAIN scored :
         (scored[i].keyword = "" /\ scored[j].keyword # "") =>
           scored[j].score >= scored[i].score

\* C29: the extended and the simple variant compute the same location,
\* building-quality, amenity and size-efficiency sub-scores for a listing
C29_SameSubScores ==
  LET scored == CallsOf("subScores")
  IN \A i, j \in DOMAIN scored :
       /\ scored[i].location = scored[j].location
       /\ scored[i].building = scored[j].building
       /\ scored[i].amenities = scored[j].amenities
       /\ scored[i].size = scored[j].size


\* the request of the running handleSubmit, if there is one
InFlight == IF client.page = "open" THEN client.request ELSE <<>>

\* the form passes the checks of all five steps
PassesAllSteps(formData) == \A step \in 1..5 : validateStep(step, formData)

\* C23: the form's validation is at least as strict as the server's: a
\* payload that passes the five validateStep checks is not answered with
\* HTTP 400 by POST
C23_FormPayloadPassesServer ==
  \A r \in {InFlight[i] : i \in DOMAIN InFlight} :
    (r.sent /\ PassesAllSteps(r.payload)) => Answer(r.payload).status # 400

\* C24: from step 1 and an empty form, whatever edits, next and previous
\* steps, step-indicator clicks, views of a saved property and resets are
\* made, the form data handleSubmit sends to /api/analyze satisfies the
\* validation rules of all five steps, and it is the form data of the moment
\* the submission starts
C24_SentOnlyWhenAllStepsValid ==
  /\ \A r \in {InFlight[i] : i \in DOMAIN InFlight} : PassesAllSteps(r.payload)
  /\ [][(InFlight = <<>> /\ InFlight' # <<>>) =>
          /\ InFlight'[1].payload = client.formData
          /\ PassesAllSteps(client.formData)]_vars

\* a request was sent after the user went back from step 5: the form on the
\* page is at an earlier step while the valid payload is in flight
C24_Witness ==
  /\ InFlight # <<>>
  /\ InFlight[1].sent
  /\ PassesAllSteps(InFlight[1].payload)
  /\ InFlight[1].payload.price = 112800
  /\ client.currentStep < 5

\* the properties saved in this session
SavedNow ==
  IF client.page = "open"
  THEN {client.savedProperties[i] : i \in {j \in DOMAIN client.savedProperties :
                                            client.savedProperties[j].timestamp > SavedCap}}
  ELSE {}

\* C22: every property saved in the session pairs a listing with the
\* analysis the route returns for exactly that listing, under every
\* interleaving of submit, edits made while the request is in flight, views
\* of a saved property, the arrival of the response and saveProperty
C22_AnalysisOfSavedListing ==
  \A entry \in SavedNow :
    /\ Answer(FormOf(entry)).status = 200
    /\ entry.analysis = Answer(FormOf(entry)).body

\* C30: every submission that starts, with loading and isSubmitting set,
\* is followed by a state with loading and isSubmitting both false, whether
\* the response is a 200, an error status or the fetch throws
C30_SubmissionEnds ==
  (client.loading /\ client.isSubmitting) ~> (~client.loading /\ ~client.isSubmitting)

\* submissions have ended each of the three ways: with a result shown,
\* with the error of a 400 or with the error of a rejected fetch
C30_Witness ==
  /\ ~client.loading
  /\ ~client.isSubmitting
  /\ client.request = <<>>
  /\ client.error = <<"Failed to fetch">>
  /\ now = SavedCap + 3

=========================================================================
